---- MODULE Spec2Model ----
(***************************************************************************)
(* A model of telebrief's acquisition engine (src/telebrief/core/parser.py):*)
(* the bounded retry loop _make_request, the pagination loop _get_posts,   *)
(* the single-channel entry point parse_channel with its age probe, and    *)
(* the batch entry point parse_multiple_channels.                          *)
(*                                                                         *)
(* Optional values (Python's None) are sequences of length at most one:    *)
(* None is <<>> and a present value v is <<v>>.  Timestamps are integers   *)
(* counted in days; datetime.now() is the constant Now.                    *)
(***************************************************************************)
EXTENDS Integers, Sequences, FiniteSets, TLC

VARIABLES
    entry,      \* the method the caller invoked on the TelegramParser
    config,     \* Config: the network and parsing settings read by the parser
    rq,         \* the activation of _make_request
    gp,         \* the activation of _get_posts
    ch,         \* the activation of parse_channel
    mc,         \* the activation of parse_multiple_channels
    log,        \* what _get_posts did to the outside: page fetches and sleeps
    net_used,   \* TRUE once the transport has been asked to send a request
    ex,         \* the activation of a function of the content extractor
    an          \* the activation of a method of MetricsAnalyzer

vars == <<entry, config, rq, gp, ch, mc, log, net_used, ex, an>>

None == <<>>
Some(v) == <<v>>
Val(o) == o[1]

\* Python truthiness of an optional integer: None and 0 are falsy.
Truthy(o) == o # None /\ Val(o) # 0

\* no call of the content extractor or of the analyzer is under way
IdleEx == [pc |-> "idle"]
IdleAn == [pc |-> "idle"]

----------------------------------------------------------------------------
(* Bounds of the model *)

MaxRetry == 1          \* retry_attempts drawn for the callers of _make_request
MaxRetryDelay == 2     \* retry_delay drawn from 1..MaxRetryDelay
MaxFetches == 2        \* pages after which the source stops handing out cursors
MaxPageLen == 2        \* posts on one page
MaxCeiling == 2        \* max_posts drawn from None and 0..MaxCeiling
MaxDays == 2           \* days drawn up to MaxDays
MaxNameLen == 4        \* characters of a channel name
MaxChannels == 2       \* channels of a batch

(* Program constants *)

MIN_RETRY_ATTEMPTS == 0
MAX_RETRY_ATTEMPTS == 10
MIN_CHANNEL_NAME_LENGTH == 3
default_days == 30
default_age_posts_limit == 5
requests_per_second == 1

\* datetime.now(), in days
Now == 3

\* time.sleep(1.0 / requests_per_second), in milliseconds
rate_delay == 1000 \div requests_per_second

----------------------------------------------------------------------------
(* Sequence helpers with Python's semantics *)

\* s[:k]: a negative k counts from the end
PyPrefix(s, k) ==
    LET n == IF k >= 0 THEN (IF k < Len(s) THEN k ELSE Len(s))
             ELSE (IF Len(s) + k > 0 THEN Len(s) + k ELSE 0)
    IN  SubSeq(s, 1, n)

\* a slip of Reversed: the sequence is walked in its own order
InDocumentOrder(s) == s

\* reversed(s)
Reversed(s) == [i \in 1..Len(s) |-> s[Len(s) + 1 - i]]

SeqsUpTo(S, n) == UNION {[1..k -> S] : k \in 0..n}

----------------------------------------------------------------------------
(* Python's float: an IEEE-754 double                                      *)
(*                                                                         *)
(* A natural number that may be wider than a 32-bit integer is the         *)
(* sequence of its digits in base 2^15 ("limbs"), the least significant    *)
(* first and the most significant not 0; <<>> is 0.  A float is a record   *)
(* [neg, m, e] standing for (-1)^neg * m * 2^e with m an odd natural       *)
(* number, or [FALSE, <<>>, 0] for 0.0.  Every operation on floats is the  *)
(* exact operation followed by the rounding of the result to 53 bits, to   *)
(* the nearest and a tie to the even, as the hardware does it.  The        *)
(* values of the program are far from the ends of the exponent range:      *)
(* infinities, subnormals and NaN do not arise, and -0.0 is 0.0.           *)

Base == 2^15

Abs(n) == IF n < 0 THEN -n ELSE n

RECURSIVE Limbs(_)
Limbs(n) == IF n = 0 THEN <<>> ELSE <<n % Base>> \o Limbs(n \div Base)

RECURSIVE IntOf(_)
IntOf(a) == IF a = <<>> THEN 0 ELSE a[1] + Base * IntOf(Tail(a))

Low(a) == IF a = <<>> THEN 0 ELSE a[1]
Rest(a) == IF a = <<>> THEN <<>> ELSE Tail(a)

RECURSIVE Trim(_)
Trim(a) == IF a # <<>> /\ a[Len(a)] = 0 THEN Trim(SubSeq(a, 1, Len(a) - 1)) ELSE a

\* a + b + carry
RECURSIVE NAddC(_, _, _)
NAddC(a, b, carry) ==
    IF a = <<>> /\ b = <<>> THEN Limbs(carry)
    ELSE LET x == Low(a) + Low(b) + carry
         IN  <<x % Base>> \o NAddC(Rest(a), Rest(b), x \div Base)

NAdd(a, b) == NAddC(a, b, 0)

\* a - b - borrow, for a >= b + borrow
RECURSIVE NSubB(_, _, _)
NSubB(a, b, borrow) ==
    IF a = <<>> THEN <<>>
    ELSE LET x == a[1] - Low(b) - borrow
         IN  IF x < 0 THEN <<x + Base>> \o NSubB(Tail(a), Rest(b), 1)
             ELSE <<x>> \o NSubB(Tail(a), Rest(b), 0)

NSub(a, b) == Trim(NSubB(a, b, 0))

\* -1, 0 or 1 as a is less than, equal to or greater than b
RECURSIVE NCmpFrom(_, _, _)
NCmpFrom(a, b, i) ==
    IF i = 0 THEN 0
    ELSE IF a[i] < b[i] THEN -1
    ELSE IF a[i] > b[i] THEN 1
    ELSE NCmpFrom(a, b, i - 1)

NCmp(a, b) ==
    IF Len(a) < Len(b) THEN -1
    ELSE IF Len(a) > Len(b) THEN 1
    ELSE NCmpFrom(a, b, Len(a))

\* a * k + carry for one limb k
RECURSIVE NMulC(_, _, _)
NMulC(a, k, carry) ==
    IF a = <<>> THEN Limbs(carry)
    ELSE LET x == a[1] * k + carry
         IN  <<x % Base>> \o NMulC(Tail(a), k, x \div Base)

NMulSmall(a, k) == IF k = 0 THEN <<>> ELSE NMulC(a, k, 0)

\* a * Base^n
ShiftLimbs(a, n) == IF a = <<>> THEN <<>> ELSE [i \in 1..n |-> 0] \o a

RECURSIVE NMul(_, _)
NMul(a, b) ==
    IF b = <<>> THEN <<>>
    ELSE NAdd(NMulSmall(a, b[1]), ShiftLimbs(NMul(a, Tail(b)), 1))

\* the quotient q and the remainder r of a by one limb k > 0
RECURSIVE NDivSmall(_, _)
NDivSmall(a, k) ==
    IF a = <<>> THEN [q |-> <<>>, r |-> 0]
    ELSE LET high == NDivSmall(Tail(a), k)
             x == high.r * Base + a[1]
         IN  [q |-> IF high.q = <<>> /\ x < k THEN <<>> ELSE <<x \div k>> \o high.q,
              r |-> x % k]

\* a * 2^n and floor(a / 2^n)
NShl(a, n) == ShiftLimbs(NMulSmall(a, 2^(n % 15)), n \div 15)
NShr(a, n) == NDivSmall(SubSeq(a, n \div 15 + 1, Len(a)), 2^(n % 15)).q

\* int.bit_length()
RECURSIVE BitLen(_)
BitLen(n) == IF n = 0 THEN 0 ELSE 1 + BitLen(n \div 2)

NBitLen(a) == IF a = <<>> THEN 0 ELSE 15 * (Len(a) - 1) + BitLen(a[Len(a)])

\* the number of factors 2 of a > 0
RECURSIVE TrailingZeros(_)
TrailingZeros(n) == IF n % 2 = 1 THEN 0 ELSE 1 + TrailingZeros(n \div 2)

RECURSIVE NTrailingZeros(_)
NTrailingZeros(a) ==
    IF a[1] = 0 THEN 15 + NTrailingZeros(Tail(a)) ELSE TrailingZeros(a[1])

\* the largest digit d with d * b <= r, for r < b * Base, from an estimate
\* that is never too large
RECURSIVE Adjusted(_, _, _)
Adjusted(r, b, digit) ==
    IF NCmp(NMulSmall(b, digit + 1), r) <= 0 THEN Adjusted(r, b, digit + 1) ELSE digit

QuotientDigit(r, b) ==
    LET n == Len(b)
        top == (IF Len(r) > n THEN r[n + 1] ELSE 0) * Base
                 + (IF Len(r) >= n THEN r[n] ELSE 0)
    IN  Adjusted(r, b, top \div (b[n] + 1))

\* long division: the quotient q and the remainder r of a by b > 0
RECURSIVE NDivLong(_, _)
NDivLong(a, b) ==
    LET Step(high, r0, digit) ==
            [q |-> IF high.q = <<>> /\ digit = 0 THEN <<>> ELSE <<digit>> \o high.q,
             r |-> NSub(r0, NMulSmall(b, digit))]
        Digit(high, r0) == Step(high, r0, QuotientDigit(r0, b))
        Shifted(high) ==
            Digit(high, IF high.r = <<>> /\ a[1] = 0 THEN <<>> ELSE <<a[1]>> \o high.r)
    IN  IF a = <<>> THEN [q |-> <<>>, r |-> <<>>] ELSE Shifted(NDivLong(Tail(a), b))

\* a // b, and whether the division is exact; the divisor is scaled to a
\* full top limb, which keeps the estimates of the digits close
NDiv(a, b) ==
    LET s == 15 - BitLen(b[Len(b)])
        Result(d, nothing) == [q |-> d.q, exact |-> d.r = nothing]
    IN  IF Len(b) = 1 THEN Result(NDivSmall(a, b[1]), 0)
        ELSE Result(NDivLong(NShl(a, s), NShl(b, s)), <<>>)

\* math.isqrt(a): Newton's iteration from above
RECURSIVE NSqrtFrom(_, _)
NSqrtFrom(a, x) ==
    LET Better(y) == IF NCmp(y, x) < 0 THEN NSqrtFrom(a, y) ELSE x
    IN  Better(NShr(NAdd(x, NDiv(a, x).q), 1))

isqrt(a) == IF a = <<>> THEN <<>> ELSE NSqrtFrom(a, NShl(<<1>>, (NBitLen(a) + 1) \div 2))

\* a % 2^n
NLowBits(a, n) ==
    IF Len(a) <= n \div 15 THEN a
    ELSE Trim(SubSeq(a, 1, n \div 15) \o <<a[n \div 15 + 1] % 2^(n % 15)>>)

\* q or q + 1, the nearer to q + rest / 2^n for n > 0, a tie going to the
\* even one
NearestTo(q, rest, n) ==
    LET c == NCmp(rest, NShl(<<1>>, n - 1))
    IN  IF c > 0 \/ (c = 0 /\ Low(q) % 2 = 1) THEN NAdd(q, <<1>>) ELSE q

\* the natural number nearest to a / 2^n for n > 0, a tie going to the even
\* one
NRoundShr(a, n) == NearestTo(NShr(a, n), NLowBits(a, n), n)

F0 == [neg |-> FALSE, m |-> <<>>, e |-> 0]

\* (-1)^neg * m * 2^e, exactly, for any natural m
Exact(neg, m, e) ==
    IF m = <<>> THEN F0
    ELSE LET z == NTrailingZeros(m)
         IN  [neg |-> neg, m |-> IF z = 0 THEN m ELSE NShr(m, z), e |-> e + z]

\* the double nearest to an exact value, a tie going to the even one
Rounded(x) ==
    LET excess == NBitLen(x.m) - 53
    IN  IF excess <= 0 THEN x
        ELSE Exact(x.neg, NRoundShr(x.m, excess), x.e + excess)

\* float(n) of an integer n: an integer of at most 53 bits is a double
FromInt(n) == Exact(n < 0, Limbs(Abs(n)), 0)

Zero == FromInt(0)

Signed(neg, n) == IF neg THEN -n ELSE n

\* -1, 0 or 1 as a is less than, equal to or greater than b
FCmp(a, b) ==
    IF a.m = <<>> /\ b.m = <<>> THEN 0
    ELSE IF a.m = <<>> THEN (IF b.neg THEN 1 ELSE -1)
    ELSE IF b.m = <<>> THEN (IF a.neg THEN -1 ELSE 1)
    ELSE IF a.neg # b.neg THEN (IF a.neg THEN -1 ELSE 1)
    ELSE LET e == IF a.e < b.e THEN a.e ELSE b.e
         IN  Signed(a.neg, NCmp(NShl(a.m, a.e - e), NShl(b.m, b.e - e)))

FLess(a, b) == FCmp(a, b) < 0
FLeq(a, b) == FCmp(a, b) <= 0

FNeg(a) == IF a.m = <<>> THEN a ELSE [a EXCEPT !.neg = ~@]

\* the exact sum, difference, product and quotient of exact values; the
\* quotient is cut after two bits more than a double holds, with one more
\* bit set when something is left, so that it rounds as the exact one
ExactAdd(a, b) ==
    LET e == IF a.e < b.e THEN a.e ELSE b.e
        Sum(x, y, c) ==
            Exact(IF a.neg = b.neg \/ c > 0 THEN a.neg ELSE b.neg,
                  IF a.neg = b.neg THEN NAdd(x, y)
                  ELSE IF c > 0 THEN NSub(x, y) ELSE NSub(y, x),
                  e)
        Aligned(x, y) == Sum(x, y, NCmp(x, y))
    IN  IF a.m = <<>> THEN b
        ELSE IF b.m = <<>> THEN a
        ELSE Aligned(NShl(a.m, a.e - e), NShl(b.m, b.e - e))

ExactMul(a, b) == Exact(a.neg # b.neg, NMul(a.m, b.m), a.e + b.e)

\* twice the quotient, and one more when the division left something
Sticky(d) == IF d.exact THEN NShl(d.q, 1) ELSE NAdd(NShl(d.q, 1), <<1>>)

CutQuotient(a, b) ==
    IF a.m = <<>> THEN F0
    ELSE LET gap == 55 + NBitLen(b.m) - NBitLen(a.m)
             s == IF gap > 0 THEN gap ELSE 0
         IN  Exact(a.neg # b.neg, Sticky(NDiv(NShl(a.m, s), b.m)), a.e - b.e - s - 1)

\* a + b, a - b, a * b and a / b (b not 0) of floats
FAdd(a, b) == Rounded(ExactAdd(a, b))
FSub(a, b) == Rounded(ExactAdd(a, FNeg(b)))
FMul(a, b) == Rounded(ExactMul(a, b))
FDiv(a, b) == Rounded(CutQuotient(a, b))

\* int(a): the fraction goes
FInt(a) == Signed(a.neg, IntOf(IF a.e >= 0 THEN NShl(a.m, a.e) ELSE NShr(a.m, -a.e)))

\* 10^n
RECURSIVE NPow10(_)
NPow10(n) == IF n = 0 THEN <<1>> ELSE NMulSmall(NPow10(n - 1), 10)

\* round(x, ndigits): the decimal of ndigits places nearest to the exact
\* value of x, a tie going to the even one, and the double nearest to it
round(x, ndigits) ==
    IF x.e >= 0 THEN x
    ELSE FDiv(Exact(x.neg, NRoundShr(NMul(x.m, NPow10(ndigits)), -x.e), 0),
              Exact(FALSE, NPow10(ndigits), 0))

\* math.sqrt of the fraction n / d of naturals, correctly rounded
\* (statistics._float_sqrt_of_frac)
integer_sqrt_of_frac_rto(n, d) ==
    LET Odd(a) == IF NMul(NMul(a, a), d) = n \/ Low(a) % 2 = 1 THEN a
                  ELSE NAdd(a, <<1>>)
    IN  Odd(isqrt(NDiv(n, d).q))

float_sqrt_of_frac(n, d) ==
    LET diff == NBitLen(n) - NBitLen(d) - 109
        q == IF diff >= 0 THEN diff \div 2 ELSE -((1 - diff) \div 2)
    IN  IF n = <<>> THEN F0
        ELSE Rounded(Exact(FALSE,
                           integer_sqrt_of_frac_rto(NShl(n, IF q >= 0 THEN 0 ELSE -2 * q),
                                                    NShl(d, IF q >= 0 THEN 2 * q ELSE 0)),
                           q))

----------------------------------------------------------------------------
(* _parse_number_with_suffix: counters such as "1.5K", "2M", "1,234"       *)
(*                                                                         *)
(* A text is a sequence of one-character strings.                          *)

K_MULTIPLIER == 1000
M_MULTIPLIER == 1000000

\* the characters texts are made of: digits, separators, suffixes in either
\* case, another letter and a blank
TextChars == {"0", "1", "5", ".", ",", "K", "m", "x", " "}

\* \d of the two cleanup expressions
IsDigit(c) == c \in {"0", "1", "5"}
DigitValue(c) == CASE c = "0" -> 0 [] c = "1" -> 1 [] c = "5" -> 5

\* str.strip(): leading and trailing whitespace goes
RECURSIVE lstrip(_)
lstrip(text) == IF text # <<>> /\ Head(text) = " " THEN lstrip(Tail(text)) ELSE text
strip(text) == Reversed(lstrip(Reversed(lstrip(text))))

\* str.upper()
upper(text) ==
    [i \in 1..Len(text) |->
        CASE text[i] = "m" -> "M" [] text[i] = "x" -> "X" [] OTHER -> text[i]]

\* `"K" in text` and text.replace("K", "")
contains(text, c) == \E i \in 1..Len(text) : text[i] = c
remove(text, c) == SelectSeq(text, LAMBDA d : d # c)

\* VIEWS_CLEANUP_REGEX.sub("", text): all but digits and dots goes
views_cleanup(text) == SelectSeq(text, LAMBDA c : IsDigit(c) \/ c = ".")

\* NUMBER_CLEANUP_REGEX.sub("", text): all but digits, dots and commas goes
number_cleanup(text) == SelectSeq(text, LAMBDA c : IsDigit(c) \/ c = "." \/ c = ",")

\* int(digits) of a text of digits
RECURSIVE int_of_digits(_)
int_of_digits(digits) ==
    IF digits = <<>> THEN 0
    ELSE 10 * int_of_digits(SubSeq(digits, 1, Len(digits) - 1))
         + DigitValue(digits[Len(digits)])

\* the natural number a text of digits spells, in limbs
RECURSIVE natural_of_digits(_)
natural_of_digits(digits) ==
    IF digits = <<>> THEN <<>>
    ELSE NAddC(NMulSmall(natural_of_digits(SubSeq(digits, 1, Len(digits) - 1)), 10),
               <<>>, DigitValue(digits[Len(digits)]))

\* float(text) for a text of digits and dots: a ValueError (None) unless the
\* text has a digit and at most one dot; else the double nearest to the
\* decimal the text spells
float(text) ==
    LET dots == {i \in 1..Len(text) : text[i] = "."}
        digits == SelectSeq(text, IsDigit)
    IN  IF digits = <<>> \/ Cardinality(dots) > 1 THEN None
        ELSE LET places == IF dots = {} THEN 0
                           ELSE Len(text) - (CHOOSE i \in dots : TRUE)
             IN  Some(FDiv(Exact(FALSE, natural_of_digits(digits), 0),
                           Exact(FALSE, NPow10(places), 0)))

\* int(number * multiplier): the product of two doubles, its fraction cut
int_times(number, multiplier) == FInt(FMul(number, FromInt(multiplier)))

Return(v) == [kind |-> "return", value |-> v]
Raise(e) == [kind |-> "raise", exc |-> e]

\* an exception of a call goes up; else the method goes on with what the
\* call returned
AndThen(r, Continue(_)) == IF r.kind = "raise" THEN r ELSE Continue(r.value)

\* a suffixed branch: float() is outside any try, its ValueError goes up
suffixed(text, suffix, multiplier) ==
    LET Times(number) == IF number = None THEN Raise("ValueError")
                         ELSE Return(int_times(Val(number), multiplier))
    IN  Times(float(views_cleanup(remove(text, suffix))))

parse_number_with_suffix(text) ==
    IF text = <<>> THEN Return(0)
    ELSE LET t == upper(strip(text)) IN
         IF contains(t, "K") THEN suffixed(t, "K", K_MULTIPLIER)
         ELSE IF contains(t, "M") THEN suffixed(t, "M", M_MULTIPLIER)
         ELSE LET clean_text == number_cleanup(t)
                  Whole(number) == IF number = None THEN Return(0)
                                   ELSE Return(FInt(Val(number)))
              IN  IF clean_text # <<>> THEN Whole(float(remove(clean_text, ",")))
                  ELSE Return(0)

----------------------------------------------------------------------------
(* The source: what the transport answers and the content extractor makes *)
(* of it                                                                   *)

\* Post(post_id=..., date=...): views defaults to 0
Post(id, d) == [post_id |-> id, date |-> d, views |-> 0]

\* The posts the channel can serve.  A post's identifier is the number its
\* post_id string spells (_parse_single_post stores str(int)); post 1 carries
\* a timestamp that parse_date could not parse (date = None).
SourcePosts == { Post(1, None), Post(2, Some(1)), Post(3, Some(2)) }

\* The `before` values of the "load more" link: non-empty digit strings
Cursors == {"10", "20"}

\* _get_posts called directly sees the full source, and so does the age
\* probe called directly for its one page; under parse_channel and
\* parse_multiple_channels the source has one page of at most one post.
\* The endless source serves pages of at most one post and still has a
\* cursor to hand out when the largest ceiling is filled.
FetchLimit ==
    CASE entry = "get_posts" -> MaxFetches
      [] entry = "get_posts_endless" -> MaxCeiling + 1
      [] OTHER -> 1
PageLenLimit ==
    IF entry \in {"get_posts", "get_channel_age_info"} THEN MaxPageLen ELSE 1

\* A response body, as (posts, next_before) of _parse_posts_from_html; the
\* source hands out no cursor on its last page
SourcePages(served) ==
    { [kind |-> "page", posts |-> b, next_before |-> c] :
        b \in SeqsUpTo(SourcePosts, PageLenLimit),
        c \in {None} \cup (IF served + 1 < FetchLimit
                           THEN {Some(k) : k \in Cursors} ELSE {}) }

\* A body the extractor raises on; exc is the class of what it raises
BadMarkup == { [kind |-> "bad_markup", exc |-> e] : e \in {"AttributeError", "TypeError"} }

\* The text of the tgme_page_extra element of the channel page, None for a
\* page without the element; of a counter without a number
\* _parse_number_with_suffix makes a ValueError
CounterTexts == {None, Some(<<"1", ".", "5", "K">>), Some(<<"K">>)}

\* The channel page: with or without the tgme_page_title element, and its
\* counter
InfoPages ==
    { [kind |-> "info", found |-> f, counter |-> c] :
        f \in BOOLEAN, c \in CounterTexts }

NoResponse == [kind |-> "none"]

----------------------------------------------------------------------------
(* _make_request: the retry loop around one transport request *)

IdleRq == [pc |-> "idle", caller |-> "none", attempt |-> 0, outcomes |-> <<>>,
           sleeps |-> <<>>, exc |-> "none", response |-> NoResponse]

\* a fresh activation: `for attempt in range(retry_attempts)` starts at 0
CallRq(caller) == [IdleRq EXCEPT !.pc = "run", !.caller = caller]

\* `for attempt in range(self.config.network.retry_attempts)`
in_range(attempt, retry_attempts) == attempt < retry_attempts

\* a slip of is_last_attempt: compares with the count, not the last index
is_last_attempt_off_by_one(attempt, retry_attempts) == attempt = retry_attempts

\* `is_last_attempt = attempt == self.config.network.retry_attempts - 1`
is_last_attempt(attempt, retry_attempts) == attempt = retry_attempts - 1

\* `time.sleep(self.config.network.retry_delay * (attempt + 1))`
retry_sleep(retry_delay, attempt) == retry_delay * (attempt + 1)

\* what the transport can answer to the caller's request
Responses ==
    CASE rq.caller = "get_posts" -> SourcePages(gp.served) \cup BadMarkup
      [] rq.caller = "get_earliest_posts" -> SourcePages(0) \cup BadMarkup
      [] rq.caller = "get_channel_info" -> InfoPages
      [] OTHER -> { [kind |-> "body"] }

\* session.request(...) answered and raise_for_status() passed: return response
make_request_success ==
    /\ rq.pc = "run"
    /\ in_range(rq.attempt, config.retry_attempts)
    /\ \E resp \in Responses :
         rq' = [rq EXCEPT !.pc = "returned", !.outcomes = Append(@, "ok"),
                          !.response = resp]
    /\ net_used' = TRUE
    /\ UNCHANGED <<ex, an, entry, config, gp, ch, mc, log>>

\* session.request(...) or raise_for_status() raised requests.RequestException
make_request_failure ==
    /\ rq.pc = "run"
    /\ in_range(rq.attempt, config.retry_attempts)
    /\ rq' = IF is_last_attempt(rq.attempt, config.retry_attempts)
             THEN [rq EXCEPT !.pc = "raised", !.outcomes = Append(@, "fail"),
                             !.exc = "transport"]
             ELSE [rq EXCEPT !.outcomes = Append(@, "fail"),
                             !.sleeps = Append(@, retry_sleep(config.retry_delay, rq.attempt)),
                             !.attempt = @ + 1]
    /\ net_used' = TRUE
    /\ UNCHANGED <<ex, an, entry, config, gp, ch, mc, log>>

\* the range is exhausted without a return or a raise:
\* `raise requests.RequestException("This should never be reached")`
make_request_fallthrough ==
    /\ rq.pc = "run"
    /\ ~in_range(rq.attempt, config.retry_attempts)
    /\ rq' = [rq EXCEPT !.pc = "raised", !.exc = "never_reached"]
    /\ UNCHANGED <<ex, an, entry, config, gp, ch, mc, log, net_used>>

make_request ==
    \/ make_request_success
    \/ make_request_failure
    \/ make_request_fallthrough

----------------------------------------------------------------------------
(* _get_posts: the pagination loop *)

\* stop is the reason the loop ended, as the method logs it; served,
\* served_ids, served_twice, served_count and page_cursor record what the
\* source served: served_count[p] is the number of times the pages the loop
\* was handed held the post p
IdleGp == [pc |-> "idle", days |-> 0, cutoff_date |-> 0, all_posts |-> <<>>,
           before |-> None, first_request |-> TRUE, latest_post_id |-> None,
           result |-> <<>>, exc |-> "none", stop |-> "none",
           served |-> 0, served_ids |-> {}, served_twice |-> FALSE,
           served_count |-> [p \in SourcePosts |-> 0],
           page_cursor |-> None]

\* parse_date on a datetime or None (date_utils.py): None stays None, a
\* datetime is returned offset-naive
parse_date(date_value) == IF date_value = None THEN None ELSE date_value

\* `cutoff_date = datetime.now() - timedelta(days=days)`
cutoff(days) == Now - days

\* a slip of accepted: the comparison with the cutoff is lost
accepted_any_dated(post, cutoff_date) == parse_date(post.date) # None

\* `if post_date and post_date >= cutoff_date`
accepted(post, cutoff_date) ==
    LET post_date == parse_date(post.date)
    IN  post_date # None /\ Val(post_date) >= cutoff_date

\* `if max_posts and len(all_posts) + len(valid_posts) >= max_posts`
ceiling_hit(max_posts, n_all, n_valid) ==
    Truthy(max_posts) /\ n_all + n_valid >= Val(max_posts)

\* `if max_posts and len(all_posts) >= max_posts` at the head of the loop
limit_reached(max_posts, all_posts) ==
    Truthy(max_posts) /\ Len(all_posts) >= Val(max_posts)

\* a slip of loop_continues: a held cursor does not keep the loop going
loop_continues_first_only(first_request, before) == first_request

\* `while first_request or before`: a cursor is a non-empty string
loop_continues(first_request, before) ==
    first_request \/ before # None

\* a slip of latest_of: the last post of the page is taken
latest_of_last(batch_posts) == Some(batch_posts[Len(batch_posts)].post_id)

\* `latest_post_id = int(latest_post_id_str) if latest_post_id_str else None`
latest_of(batch_posts) == Some(batch_posts[1].post_id)

\* `for post in reversed(batch_posts)`: rev is what is left of the walk, acc
\* the values of valid_posts, found_old_post and next_before so far
RECURSIVE walk_batch(_, _, _, _, _)
walk_batch(rev, acc, n_all, cutoff_date, max_posts) ==
    IF rev = <<>> THEN acc
    ELSE LET post == Head(rev) IN
         IF accepted(post, cutoff_date)
         THEN LET valid == Append(acc.valid_posts, post) IN
              IF ceiling_hit(max_posts, n_all, Len(valid))
              THEN [valid_posts |-> PyPrefix(valid, Val(max_posts) - n_all),
                    found_old_post |-> acc.found_old_post,
                    next_before |-> None]
              ELSE walk_batch(Tail(rev), [acc EXCEPT !.valid_posts = valid],
                              n_all, cutoff_date, max_posts)
         ELSE walk_batch(Tail(rev), [acc EXCEPT !.found_old_post = TRUE],
                         n_all, cutoff_date, max_posts)

\* a slip of extend: the page's posts are added twice
extend_twice(all_posts, valid_posts) == all_posts \o valid_posts \o valid_posts

\* a slip of extend: the page's posts are not added
extend_nothing(all_posts, valid_posts) == all_posts

\* `all_posts.extend(valid_posts)`
extend(all_posts, valid_posts) == all_posts \o valid_posts

\* a slip of stale_page: the boundary never stops the loop
never_stale(found_old_post, valid_posts) == FALSE

\* a slip of stale_page: any post outside the window stops the loop
stale_page_on_any_old(found_old_post, valid_posts) == found_old_post

\* `if found_old_post and len(valid_posts) == 0`
stale_page(found_old_post, valid_posts) == found_old_post /\ Len(valid_posts) = 0

\* `[post for post in all_posts if post.date is not None]`
with_dates(posts) == SelectSeq(posts, LAMBDA p : p.date # None)

\* list.sort(key=date) is stable: p goes after every post not later than it
RECURSIVE insert_by_date(_, _)
insert_by_date(sorted, p) ==
    IF sorted = <<>> THEN <<p>>
    ELSE IF Val(Head(sorted).date) <= Val(p.date)
         THEN <<Head(sorted)>> \o insert_by_date(Tail(sorted), p)
         ELSE <<p>> \o sorted

\* a slip of sort_by_date: the posts stay in the order they were accepted
unsorted(posts) == posts

RECURSIVE sort_by_date(_)
sort_by_date(posts) ==
    IF posts = <<>> THEN <<>>
    ELSE insert_by_date(sort_by_date(SubSeq(posts, 1, Len(posts) - 1)),
                        posts[Len(posts)])

\* `if max_posts and len(all_posts) > max_posts: all_posts = all_posts[:max_posts]`
cap(posts, max_posts) ==
    IF Truthy(max_posts) /\ Len(posts) > Val(max_posts)
    THEN PyPrefix(posts, Val(max_posts))
    ELSE posts

\* the statements after the loop: filter, sort, cap, return.  The locals
\* end with the activation; what the source served is kept for the record.
finish(g, why, max_posts) ==
    [IdleGp EXCEPT !.pc = "returned",
                   !.days = g.days,
                   !.cutoff_date = g.cutoff_date,
                   !.latest_post_id = g.latest_post_id,
                   !.result = cap(sort_by_date(with_dates(g.all_posts)), max_posts),
                   !.stop = why,
                   !.served = g.served,
                   !.served_ids = g.served_ids,
                   !.served_twice = g.served_twice,
                   !.served_count = g.served_count,
                   !.page_cursor = g.page_cursor]

\* the head of one iteration: the `while` test, first_request = False and
\* the ceiling test; the frame waits on _make_request or has returned
loop_head(g, max_posts) ==
    IF ~loop_continues(g.first_request, g.before) THEN finish(g, "while", max_posts)
    ELSE LET g1 == [g EXCEPT !.first_request = FALSE] IN
         IF limit_reached(max_posts, g1.all_posts)
         THEN finish(g1, "limit", max_posts)
         ELSE [g1 EXCEPT !.pc = "wait"]

\* what the frame g, fresh from loop_head, asks of _make_request and leaves
\* in the log: a POST with data = {"before": before} when a cursor is held
request_of(g) == IF g.pc = "wait" THEN CallRq("get_posts") ELSE IdleRq

\* a slip of fetch_event: the cursor is not passed on
fetch_event_without_cursor(g) ==
    IF g.pc = "wait" THEN << <<"fetch", None>> >> ELSE <<>>

fetch_event(g) ==
    IF g.pc = "wait" THEN << <<"fetch", g.before>> >> ELSE <<>>

\* a slip of partial_return: the handler always re-raises
never_partial(all_posts) == FALSE

\* a slip of partial_return: the handler never re-raises
always_partial(all_posts) == TRUE

\* `if all_posts:` in the handler of requests.RequestException
partial_return(all_posts) == all_posts # <<>>

\* _get_posts(channel_name, days) is entered: the locals are set up and the
\* first iteration runs up to its request
get_posts_enter ==
    /\ gp.pc = "call"
    /\ LET g0 == [IdleGp EXCEPT !.days = gp.days,
                                !.cutoff_date = cutoff(gp.days)]
           g1 == loop_head(g0, config.max_posts)
       IN  /\ gp' = g1
           /\ rq' = request_of(g1)
           /\ log' = fetch_event(g1)
    /\ UNCHANGED <<ex, an, entry, config, ch, mc, net_used>>

\* the number of times a page holds the post p
Count(posts, p) == Cardinality({i \in 1..Len(posts) : posts[i] = p})

\* the ids of a page, and whether the page repeats one
ids_of(posts) == {posts[i].post_id : i \in 1..Len(posts)}
repeats(posts) == \E i, j \in 1..Len(posts) : i # j /\ posts[i].post_id = posts[j].post_id

\* the rest of an iteration once the response is there, and the head of the
\* next one up to its request
get_posts_page ==
    /\ gp.pc = "wait"
    /\ rq.pc = "returned"
    /\ rq.caller = "get_posts"
    /\ rq.response.kind = "page"
    /\ LET batch_posts == rq.response.posts
           g0 == [gp EXCEPT !.served = @ + 1,
                            !.served_ids = @ \cup ids_of(batch_posts),
                            !.served_twice = @ \/ repeats(batch_posts)
                                 \/ (ids_of(batch_posts) \cap gp.served_ids # {}),
                            !.served_count = [p \in SourcePosts |->
                                                 @[p] + Count(batch_posts, p)],
                            !.page_cursor = rq.response.next_before]
       IN  IF batch_posts = <<>>
           THEN /\ gp' = finish(g0, "empty", config.max_posts)
                /\ rq' = IdleRq
                /\ log' = log
           ELSE
             LET g1 == [g0 EXCEPT !.latest_post_id =
                                    IF @ = None THEN latest_of(batch_posts) ELSE @]
                 w == walk_batch(Reversed(batch_posts),
                                 [valid_posts |-> <<>>, found_old_post |-> FALSE,
                                  next_before |-> rq.response.next_before],
                                 Len(gp.all_posts), gp.cutoff_date, config.max_posts)
                 g2 == [g1 EXCEPT !.all_posts = extend(@, w.valid_posts)]
             IN  IF stale_page(w.found_old_post, w.valid_posts)
                 THEN /\ gp' = finish(g2, "stale", config.max_posts)
                      /\ rq' = IdleRq
                      /\ log' = log
                 ELSE IF w.next_before = None
                 THEN /\ gp' = finish(g2, "end", config.max_posts)
                      /\ rq' = IdleRq
                      /\ log' = log
                 ELSE LET g3 == loop_head([g2 EXCEPT !.before = w.next_before],
                                          config.max_posts)
                      IN  /\ gp' = g3
                          /\ rq' = request_of(g3)
                          /\ log' = log \o << <<"sleep", rate_delay>> >> \o fetch_event(g3)
    /\ UNCHANGED <<ex, an, entry, config, ch, mc, net_used>>

\* _parse_posts_from_html raises: no handler of _get_posts takes it
get_posts_bad_markup ==
    /\ gp.pc = "wait"
    /\ rq.pc = "returned"
    /\ rq.caller = "get_posts"
    /\ rq.response.kind = "bad_markup"
    /\ gp' = [gp EXCEPT !.pc = "raised", !.exc = rq.response.exc]
    /\ rq' = IdleRq
    /\ UNCHANGED <<ex, an, entry, config, ch, mc, log, net_used>>

\* `except requests.RequestException`: partial return, or ValueError
get_posts_error ==
    /\ gp.pc = "wait"
    /\ rq.pc = "raised"
    /\ rq.caller = "get_posts"
    /\ gp' = IF partial_return(gp.all_posts)
             THEN finish(gp, "error", config.max_posts)
             ELSE [gp EXCEPT !.pc = "raised", !.exc = "ValueError"]
    /\ rq' = IdleRq
    /\ UNCHANGED <<ex, an, entry, config, ch, mc, log, net_used>>

get_posts ==
    \/ get_posts_enter
    \/ get_posts_page
    \/ get_posts_bad_markup
    \/ get_posts_error

----------------------------------------------------------------------------
(* parse_channel and the channel age probe *)

\* arg_name and arg_days are the arguments as the caller passed them; probe
\* is how the age probe went, probed the posts of the page it was served,
\* and stage where an exception left the method
IdleCh == [pc |-> "idle", arg_name |-> <<>>, arg_days |-> None,
           channel_name |-> <<>>, days |-> None, info |-> None,
           posts |-> <<>>, latest_post_id |-> None,
           exc |-> "none", stage |-> "none", probe |-> "none", probed |-> <<>>]

CallCh(name, days) ==
    [IdleCh EXCEPT !.pc = "call", !.arg_name = name, !.arg_days = days,
                   !.channel_name = name, !.days = days]

\* `channel_name.lstrip("@")`: every leading "@" goes
RECURSIVE lstrip_at(_)
lstrip_at(name) ==
    IF name # <<>> /\ Head(name) = "@" THEN lstrip_at(Tail(name)) ELSE name

\* `days or self.config.parsing.default_days`
days_or_default(days) == IF Truthy(days) THEN Val(days) ELSE default_days

\* `if days <= 0`
days_rejected(days) == days <= 0

\* `if len(channel_name) < MIN_CHANNEL_NAME_LENGTH or " " in channel_name`
name_rejected(channel_name) ==
    \/ Len(channel_name) < MIN_CHANNEL_NAME_LENGTH
    \/ \E i \in 1..Len(channel_name) : channel_name[i] = " "

\* ChannelInfo(channel=..., subscribers=...): first_post_date defaults to
\* None
ChannelInfo(channel_name, subscribers) ==
    [channel |-> channel_name, subscribers |-> subscribers, first_post_date |-> None]

\* _extract_subscribers: 0 for a page without counter, else what
\* _parse_number_with_suffix makes of the counter's text
extract_subscribers(counter) ==
    IF counter = None THEN Return(0) ELSE parse_number_with_suffix(Val(counter))

\* parse_channel(channel_name, days) is entered: the arguments are
\* normalised and validated, then _get_channel_info asks for the channel page
parse_channel_enter ==
    /\ ch.pc = "call"
    /\ LET name == lstrip_at(ch.channel_name)
           days == days_or_default(ch.days)
           c0 == [ch EXCEPT !.channel_name = name, !.days = Some(days)]
       IN  IF days_rejected(days)
           THEN /\ ch' = [c0 EXCEPT !.pc = "raised", !.exc = "ValueError", !.stage = "days"]
                /\ rq' = rq
           ELSE IF name_rejected(name)
           THEN /\ ch' = [c0 EXCEPT !.pc = "raised", !.exc = "ValueError", !.stage = "name"]
                /\ rq' = rq
           ELSE /\ ch' = [c0 EXCEPT !.pc = "info"]
                /\ rq' = CallRq("get_channel_info")
    /\ UNCHANGED <<ex, an, entry, config, gp, mc, log, net_used>>

\* _get_channel_info has its page: without a title the channel is "not
\* found" (ValueError), and what _extract_subscribers raises goes up through
\* parse_channel; else parse_channel goes on to _get_posts
get_channel_info_page ==
    /\ ch.pc = "info"
    /\ rq.pc = "returned"
    /\ rq.caller = "get_channel_info"
    /\ LET Counted(subscribers) ==
               IF ~rq.response.found
               THEN /\ ch' = [ch EXCEPT !.pc = "raised", !.exc = "ValueError",
                                        !.stage = "info"]
                    /\ gp' = gp
               ELSE IF subscribers.kind = "raise"
               THEN /\ ch' = [ch EXCEPT !.pc = "raised", !.exc = subscribers.exc,
                                        !.stage = "info"]
                    /\ gp' = gp
               ELSE /\ ch' = [ch EXCEPT !.pc = "posts",
                                        !.info = Some(ChannelInfo(ch.channel_name,
                                                                  subscribers.value))]
                    /\ gp' = [IdleGp EXCEPT !.pc = "call", !.days = Val(ch.days)]
       IN  Counted(extract_subscribers(rq.response.counter))
    /\ rq' = IdleRq
    /\ UNCHANGED <<ex, an, entry, config, mc, log, net_used>>

\* `except requests.RequestException as e: raise ValueError(...) from e`
get_channel_info_error ==
    /\ ch.pc = "info"
    /\ rq.pc = "raised"
    /\ rq.caller = "get_channel_info"
    /\ ch' = [ch EXCEPT !.pc = "raised", !.exc = "ValueError", !.stage = "info"]
    /\ rq' = IdleRq
    /\ UNCHANGED <<ex, an, entry, config, gp, mc, log, net_used>>

\* _get_posts returned: Channel(info=channel_info, posts=posts), then the
\* age probe if configured, else the channel is returned
parse_channel_posts ==
    /\ ch.pc = "posts"
    /\ gp.pc = "returned"
    /\ LET c0 == [ch EXCEPT !.posts = gp.result, !.latest_post_id = gp.latest_post_id]
       IN  IF config.fetch_age_info
           THEN /\ ch' = [c0 EXCEPT !.pc = "age"]
                /\ rq' = CallRq("get_earliest_posts")
           ELSE /\ ch' = [c0 EXCEPT !.pc = "returned"]
                /\ rq' = rq
    /\ UNCHANGED <<ex, an, entry, config, gp, mc, log, net_used>>

\* _get_posts raised: `except Exception as e: ...; raise`
parse_channel_posts_raised ==
    /\ ch.pc = "posts"
    /\ gp.pc = "raised"
    /\ ch' = [ch EXCEPT !.pc = "raised", !.exc = gp.exc, !.stage = "posts"]
    /\ UNCHANGED <<ex, an, entry, config, rq, gp, mc, log, net_used>>

\* a slip of age_limit: the floor of one post is lost
age_limit_without_floor(age_posts_limit) == age_posts_limit

\* `limit = max(1, self.config.parsing.age_posts_limit)`
age_limit(age_posts_limit) == IF age_posts_limit > 1 THEN age_posts_limit ELSE 1

\* the date of `min(posts_with_dates, key=lambda p: p.date)`
min_date(posts) ==
    LET dates == {Val(posts[i].date) : i \in 1..Len(posts)}
    IN  Some(CHOOSE d \in dates : \A e \in dates : d <= e)

\* what _get_channel_age_info stores for the posts _get_earliest_posts returned
first_post_date_of(posts) ==
    IF posts # <<>> /\ with_dates(posts) # <<>>
    THEN min_date(with_dates(posts))
    ELSE None

\* a slip of age_info_catches: only transport errors are swallowed
age_info_catches_transport_only(exc) == exc = "RequestException"

\* `except (requests.RequestException, ValueError, AttributeError)` of
\* _get_earliest_posts and `except Exception` of _get_channel_age_info
earliest_posts_catches(exc) == exc \in {"RequestException", "ValueError", "AttributeError"}
age_info_catches(exc) == TRUE

\* the frame after exception exc came up inside _get_earliest_posts
probe_failed(c, exc, how) ==
    IF earliest_posts_catches(exc) \/ age_info_catches(exc)
    THEN [c EXCEPT !.pc = "returned", !.probe = how]
    ELSE [c EXCEPT !.pc = "raised", !.exc = exc, !.stage = "age", !.probe = how]

\* the probe's page is there: first_post_date is set from its first posts
age_probe_page ==
    /\ ch.pc = "age"
    /\ rq.pc = "returned"
    /\ rq.caller = "get_earliest_posts"
    /\ ch' = IF rq.response.kind = "page"
             THEN LET posts == PyPrefix(rq.response.posts, age_limit(config.age_posts_limit))
                  IN  [ch EXCEPT !.pc = "returned", !.probe = "ok",
                                 !.probed = rq.response.posts,
                                 !.info = Some([Val(@) EXCEPT !.first_post_date =
                                                   IF first_post_date_of(posts) # None
                                                   THEN first_post_date_of(posts) ELSE @])]
             ELSE probe_failed(ch, rq.response.exc, "extract_failed")
    /\ rq' = IdleRq
    /\ UNCHANGED <<ex, an, entry, config, gp, mc, log, net_used>>

\* the probe's request failed for good
age_probe_error ==
    /\ ch.pc = "age"
    /\ rq.pc = "raised"
    /\ rq.caller = "get_earliest_posts"
    /\ ch' = probe_failed(ch, "RequestException", "transport_failed")
    /\ rq' = IdleRq
    /\ UNCHANGED <<ex, an, entry, config, gp, mc, log, net_used>>

parse_channel ==
    \/ parse_channel_enter
    \/ get_channel_info_page
    \/ get_channel_info_error
    \/ parse_channel_posts
    \/ parse_channel_posts_raised
    \/ age_probe_page
    \/ age_probe_error

----------------------------------------------------------------------------
(* parse_multiple_channels *)

\* attempts and outcomes record, in order, the channels parse_channel was
\* called for and how each call ended; sleeps the pauses between channels
IdleMc == [pc |-> "idle", channel_names |-> <<>>, days |-> None, i |-> 0,
           results |-> <<>>, attempts |-> <<>>, outcomes |-> <<>>, sleeps |-> <<>>]

\* results[channel_name] = channel: results is the list of (key, value)
\* pairs of the dict, a later value replacing an earlier one under its key
dict_set(results, key, value) ==
    IF \E k \in 1..Len(results) : results[k][1] = key
    THEN [k \in 1..Len(results) |->
            IF results[k][1] = key THEN <<key, value>> ELSE results[k]]
    ELSE Append(results, <<key, value>>)

dict_keys(results) == {results[k][1] : k \in 1..Len(results)}

\* the `for` statement takes the next channel name, or the loop is over and
\* results is returned
next_channel(m) ==
    IF m.i < Len(m.channel_names)
    THEN [m EXCEPT !.i = @ + 1, !.attempts = Append(@, m.channel_names[m.i + 1])]
    ELSE [m EXCEPT !.pc = "returned"]

\* the parse_channel call the frame m, fresh from next_channel, makes
call_of(m) ==
    IF m.pc = "loop" THEN CallCh(m.channel_names[m.i], m.days) ELSE IdleCh

\* a slip of on_channel_error: the exception ends the batch
on_channel_error_abort(m) == [m EXCEPT !.pc = "raised", !.outcomes = Append(@, "failed")]

\* `except Exception as e: ...; continue`
on_channel_error(m) == next_channel([m EXCEPT !.outcomes = Append(@, "failed")])

\* parse_multiple_channels(channel_names, days) is entered
batch_enter ==
    /\ mc.pc = "call"
    /\ LET m1 == IF mc.channel_names = <<>>
                 THEN [mc EXCEPT !.pc = "raised"]
                 ELSE next_channel([mc EXCEPT !.pc = "loop",
                                              !.days = Some(days_or_default(mc.days))])
       IN  /\ mc' = m1
           /\ ch' = call_of(m1)
    /\ UNCHANGED <<ex, an, entry, config, rq, gp, log, net_used>>

\* parse_channel returned: the channel is stored, and before a next channel
\* the loop sleeps
batch_channel_returned ==
    /\ mc.pc = "loop"
    /\ ch.pc = "returned"
    /\ LET m0 == [mc EXCEPT !.results = dict_set(@, mc.channel_names[mc.i],
                                   [info |-> Val(ch.info), posts |-> ch.posts]),
                            !.outcomes = Append(@, "ok"),
                            !.sleeps = IF mc.i < Len(mc.channel_names)
                                       THEN Append(@, rate_delay) ELSE @]
           m1 == next_channel(m0)
       IN  /\ mc' = m1
           /\ ch' = call_of(m1)
    /\ UNCHANGED <<ex, an, entry, config, rq, gp, log, net_used>>

\* parse_channel raised: logged, and the loop goes on
batch_channel_raised ==
    /\ mc.pc = "loop"
    /\ ch.pc = "raised"
    /\ LET m1 == on_channel_error(mc)
       IN  /\ mc' = m1
           /\ ch' = call_of(m1)
    /\ UNCHANGED <<ex, an, entry, config, rq, gp, log, net_used>>

parse_multiple_channels ==
    \/ batch_enter
    \/ batch_channel_returned
    \/ batch_channel_raised

----------------------------------------------------------------------------
(* Specifications: one per method a caller invokes *)

MaxPostsChoices == {None} \cup {Some(n) : n \in 0..MaxCeiling}

ConfigOf(ra, rd, mp, age) ==
    [retry_attempts |-> ra, retry_delay |-> rd, max_posts |-> mp,
     fetch_age_info |-> age, age_posts_limit |-> default_age_posts_limit]

\* a caller invokes _make_request
InitRequest ==
    /\ entry = "make_request"
    /\ \E ra \in MIN_RETRY_ATTEMPTS..MAX_RETRY_ATTEMPTS, rd \in 1..MaxRetryDelay :
         config = ConfigOf(ra, rd, None, TRUE)
    /\ rq = CallRq("caller")
    /\ gp = IdleGp
    /\ ch = IdleCh
    /\ mc = IdleMc
    /\ log = <<>>
    /\ net_used = FALSE
    /\ ex = IdleEx
    /\ an = IdleAn

NextRequest == make_request

SpecRequest == InitRequest /\ [][NextRequest]_vars

\* a caller invokes _get_posts(channel_name, days)
InitPosts ==
    /\ entry = "get_posts"
    /\ \E ra \in 0..MaxRetry, mp \in MaxPostsChoices :
         config = ConfigOf(ra, 1, mp, TRUE)
    /\ rq = IdleRq
    /\ \E d \in 1..MaxDays : gp = [IdleGp EXCEPT !.pc = "call", !.days = d]
    /\ ch = IdleCh
    /\ mc = IdleMc
    /\ log = <<>>
    /\ net_used = FALSE
    /\ ex = IdleEx
    /\ an = IdleAn

NextPosts == make_request \/ get_posts

SpecPosts == InitPosts /\ [][NextPosts]_vars

\* a caller invokes _get_posts(channel_name, days) on the endless source
InitEndless ==
    /\ entry = "get_posts_endless"
    /\ \E ra \in 0..MaxRetry, mp \in MaxPostsChoices :
         config = ConfigOf(ra, 1, mp, TRUE)
    /\ rq = IdleRq
    /\ \E d \in 1..MaxDays : gp = [IdleGp EXCEPT !.pc = "call", !.days = d]
    /\ ch = IdleCh
    /\ mc = IdleMc
    /\ log = <<>>
    /\ net_used = FALSE
    /\ ex = IdleEx
    /\ an = IdleAn

NextEndless == make_request \/ get_posts

SpecEndless == InitEndless /\ [][NextEndless]_vars

\* the characters channel names are made of
NameChars == {"@", " ", "\t", "a"}
ChannelNames == SeqsUpTo(NameChars, MaxNameLen)
DaysChoices == {None} \cup {Some(d) : d \in -1..MaxDays}

\* a caller invokes parse_channel(channel_name, days)
InitChannel ==
    /\ entry = "parse_channel"
    /\ \E ra \in 0..MaxRetry, age \in BOOLEAN :
         config = ConfigOf(ra, 1, None, age)
    /\ rq = IdleRq
    /\ gp = IdleGp
    /\ \E name \in ChannelNames, days \in DaysChoices : ch = CallCh(name, days)
    /\ mc = IdleMc
    /\ log = <<>>
    /\ net_used = FALSE
    /\ ex = IdleEx
    /\ an = IdleAn

NextChannel == make_request \/ get_posts \/ parse_channel

SpecChannel == InitChannel /\ [][NextChannel]_vars

\* the names of a batch: one that passes validation and one that does not
BatchNames == { <<"a", "a", "a">>, <<"a", "a">> }

\* a caller invokes parse_multiple_channels(channel_names, days)
InitBatch ==
    /\ entry = "parse_multiple_channels"
    /\ \E ra \in 0..MaxRetry : config = ConfigOf(ra, 1, None, TRUE)
    /\ rq = IdleRq
    /\ gp = IdleGp
    /\ ch = IdleCh
    /\ \E names \in SeqsUpTo(BatchNames, MaxChannels) :
         mc = [IdleMc EXCEPT !.pc = "call", !.channel_names = names]
    /\ log = <<>>
    /\ net_used = FALSE
    /\ ex = IdleEx
    /\ an = IdleAn

NextBatch == make_request \/ get_posts \/ parse_channel \/ parse_multiple_channels

SpecBatch == InitBatch /\ [][NextBatch]_vars

----------------------------------------------------------------------------
(* Properties of _get_posts *)

HasDates(posts) == \A i \in 1..Len(posts) : posts[i].date # None

NonDecreasing(posts) ==
    \A i, j \in 1..Len(posts) : i < j => Val(posts[i].date) <= Val(posts[j].date)

DistinctIds(posts) ==
    \A i, j \in 1..Len(posts) : i # j => posts[i].post_id # posts[j].post_id

SamePosts(a, b) ==
    /\ Len(a) = Len(b)
    /\ \A p \in SourcePosts : Count(a, p) = Count(b, p)

\* the page in the response holds no post / holds posts, none inside the window
EmptyPage == rq.response.posts = <<>>
StalePage ==
    /\ rq.response.posts # <<>>
    /\ \A i \in 1..Len(rq.response.posts) :
         LET d == rq.response.posts[i].date
         IN  d = None \/ Val(d) < Now - gp.days

\* C1: the sequence _get_posts returns is sorted non-decreasing by timestamp
\* and holds no post without a timestamp
C1_SortedWithTimestamps ==
    gp.pc = "returned" => HasDates(gp.result) /\ NonDecreasing(gp.result)

\* two posts of different dates are returned, and the source also served the
\* post without a timestamp
C1_Witness ==
    /\ entry = "get_posts"
    /\ gp.pc = "returned"
    /\ Len(gp.result) >= 2
    /\ gp.result[1].date # gp.result[Len(gp.result)].date
    /\ 1 \in gp.served_ids

\* C2: with max_posts = N configured, the returned sequence has length <= N
C2_LengthWithinCeiling ==
    (gp.pc = "returned" /\ config.max_posts # None)
        => Len(gp.result) <= Val(config.max_posts)

\* C3: every returned post has a timestamp >= (now at the call) - days
C3_NoPostOlderThanCutoff ==
    gp.pc = "returned" =>
        \A i \in 1..Len(gp.result) :
            /\ gp.result[i].date # None
            /\ Val(gp.result[i].date) >= Now - gp.days

\* posts are returned although the source served a post older than the cutoff
C3_Witness ==
    /\ entry = "get_posts"
    /\ gp.pc = "returned"
    /\ gp.result # <<>>
    /\ \E p \in SourcePosts :
         /\ p.post_id \in gp.served_ids
         /\ p.date # None
         /\ Val(p.date) < Now - gp.days

\* C4 as claimed: no post identifier occurs more than once in the returned
\* sequence, whatever pages the source serves
C4_Deduplicated == gp.pc = "returned" => DistinctIds(gp.result)

\* the number of copies of posts inside the window that the fetched pages
\* held
RECURSIVE ServedInWindow(_)
ServedInWindow(posts) ==
    IF posts = {} THEN 0
    ELSE LET p == CHOOSE q \in posts : TRUE
         IN  (IF accepted(p, gp.cutoff_date) THEN gp.served_count[p] ELSE 0)
                 + ServedInWindow(posts \ {p})

\* C4 as amended: the loop has no uniqueness step; it keeps the copies of
\* the posts inside the window as the fetched pages held them, up to the
\* ceiling.  The returned sequence holds a post at most as often as the
\* fetched pages held it, and no post outside the window; it holds as many
\* posts as the fetched pages held copies inside the window, or max_posts of
\* them when a ceiling of 1 or more is configured and that is fewer (so,
\* without a ceiling, each post inside the window exactly as often as it
\* was served); and it is free of repeated identifiers whenever the source
\* served no post twice
C4_ServedCopiesKept ==
    gp.pc = "returned" =>
        /\ \A p \in SourcePosts :
             Count(gp.result, p) <=
                 IF accepted(p, gp.cutoff_date) THEN gp.served_count[p] ELSE 0
        /\ Len(gp.result) =
               IF Truthy(config.max_posts)
                  /\ Val(config.max_posts) < ServedInWindow(SourcePosts)
               THEN Val(config.max_posts)
               ELSE ServedInWindow(SourcePosts)
        /\ (~gp.served_twice => DistinctIds(gp.result))

\* two pages were served, each with the post of day 2 inside the window,
\* and the post is returned twice
C4_Witness ==
    /\ entry = "get_posts"
    /\ gp.pc = "returned"
    /\ gp.served = 2
    /\ gp.served_count[Post(3, Some(2))] = 2
    /\ Count(gp.result, Post(3, Some(2))) = 2

\* C5: when a page fetch has failed for good, the loop stops; with posts
\* collected they are returned, sorted, and nothing is raised; with none
\* collected the failure goes to the caller as an error
C5_PartialSuccess ==
    [][ (gp.pc = "wait" /\ rq.pc = "raised") =>
          IF gp.all_posts # <<>>
          THEN /\ gp'.pc = "returned"
               /\ SamePosts(gp'.result, gp.all_posts)
               /\ NonDecreasing(gp'.result)
               /\ rq'.pc = "idle"
               /\ log' = log
          ELSE /\ gp'.pc = "raised"
               /\ gp'.exc = "ValueError"
               /\ rq'.pc = "idle"
               /\ log' = log ]_vars

\* a fetch failed after a page had been collected, and its posts came back
C5_Witness ==
    /\ entry = "get_posts"
    /\ gp.pc = "returned"
    /\ gp.stop = "error"
    /\ gp.served >= 1
    /\ gp.result # <<>>

\* C8: a page without posts, and a page with posts none of which is inside
\* the window, end the loop with no further fetch, cursor or not
C8_EmptyOrStalePageStops ==
    [][ (/\ gp.pc = "wait"
         /\ rq.pc = "returned"
         /\ rq.response.kind = "page"
         /\ (EmptyPage \/ StalePage))
        => (/\ gp'.pc = "returned"
            /\ rq'.pc = "idle"
            /\ log' = log) ]_vars

\* the loop ended on a page of posts outside the window that carried a cursor
C8_Witness ==
    /\ entry = "get_posts"
    /\ gp.pc = "returned"
    /\ gp.stop = "stale"
    /\ gp.page_cursor # None

----------------------------------------------------------------------------
(* Properties of _make_request *)

\* C9: at most retry_attempts transport requests; the first success is
\* returned; the k-th failure is followed by a sleep of retry_delay * k
\* exactly when another attempt follows; the last failure is raised unslept
C9_BoundedRetry ==
    LET sent == Len(rq.outcomes)
        slept == Len(rq.sleeps)
    IN  /\ sent <= config.retry_attempts
        /\ \A k \in 1..sent :
             rq.outcomes[k] = "ok" => (k = sent /\ rq.pc = "returned")
        /\ \A k \in 1..slept : rq.sleeps[k] = config.retry_delay * k
        /\ rq.pc = "run" => slept = sent
        /\ (rq.pc = "run" /\ sent >= 1) => sent < config.retry_attempts
        /\ rq.pc = "returned" => (sent >= 1 /\ rq.outcomes[sent] = "ok" /\ slept = sent - 1)
        /\ (rq.pc = "raised" /\ sent >= 1) =>
             (/\ sent = config.retry_attempts
              /\ slept = sent - 1
              /\ rq.exc = "transport")

\* three attempts failed: two sleeps, then the raise
C9_Witness ==
    /\ entry = "make_request"
    /\ rq.pc = "raised"
    /\ Len(rq.outcomes) = 3
    /\ rq.sleeps = <<config.retry_delay, 2 * config.retry_delay>>

----------------------------------------------------------------------------
(* Properties of parse_channel and parse_multiple_channels *)

\* the name without one leading "@"
WithoutAt(name) == IF name # <<>> /\ Head(name) = "@" THEN Tail(name) ELSE name

Whitespace == {" ", "\t"}

\* the arguments the claim calls invalid
InvalidArguments ==
    \/ Len(WithoutAt(ch.arg_name)) < MIN_CHANNEL_NAME_LENGTH
    \/ \E i \in 1..Len(ch.arg_name) : ch.arg_name[i] \in Whitespace
    \/ (ch.arg_days # None /\ Val(ch.arg_days) <= 0)

\* C6: with an invalid channel identifier or days <= 0, parse_channel raises
\* a validation error before any network request is issued
C6_FailFastOnInvalidInput ==
    (entry = "parse_channel" /\ ch.pc # "call" /\ InvalidArguments) =>
        (/\ ch.pc = "raised"
         /\ ch.exc = "ValueError"
         /\ ch.stage \in {"days", "name"}
         /\ rq.pc = "idle"
         /\ ~net_used)

\* C7: an empty list is rejected before any attempt; otherwise the channels
\* are attempted once each in list order, a failure does not end the batch,
\* and the mapping returned holds exactly the channels that succeeded
C7_BatchContinuesPastFailures ==
    /\ mc.pc = "raised" =>
         (mc.channel_names = <<>> /\ mc.attempts = <<>> /\ ~net_used)
    /\ (mc.channel_names = <<>> /\ mc.pc # "call") => mc.pc = "raised"
    /\ Len(mc.attempts) <= Len(mc.channel_names)
    /\ mc.attempts = SubSeq(mc.channel_names, 1, Len(mc.attempts))
    /\ mc.pc = "returned" =>
         (/\ mc.attempts = mc.channel_names
          /\ Len(mc.outcomes) = Len(mc.channel_names)
          /\ dict_keys(mc.results) =
               {mc.channel_names[k] : k \in {j \in 1..Len(mc.channel_names) :
                                               mc.outcomes[j] = "ok"}})

\* the first channel failed, the second was still attempted and is the one
\* channel of the mapping
C7_Witness ==
    /\ entry = "parse_multiple_channels"
    /\ mc.pc = "returned"
    /\ mc.outcomes = <<"failed", "ok">>
    /\ dict_keys(mc.results) = {mc.channel_names[2]}

\* C10: a failure of the age probe never fails parse_channel: the channel is
\* returned with first_post_date None and the posts _get_posts returned
C10_AgeProbeFailureSwallowed ==
    /\ ch.stage # "age"
    /\ ch.probe \in {"transport_failed", "extract_failed"} =>
         (/\ ch.pc = "returned"
          /\ ch.info # None
          /\ Val(ch.info).first_post_date = None
          /\ ch.posts = gp.result)

\* posts were collected, the probe's request failed, the channel came back
C10_Witness ==
    /\ entry = "parse_channel"
    /\ ch.pc = "returned"
    /\ ch.probe = "transport_failed"
    /\ ch.posts # <<>>

----------------------------------------------------------------------------
(* Calls of _parse_number_with_suffix *)

MaxTextLen == 4        \* characters of a counter text

\* the frame of a call that ended with outcome r
Ended(frame, r) ==
    IF r.kind = "return"
    THEN [frame EXCEPT !.pc = "returned", !.result = Some(r.value)]
    ELSE [frame EXCEPT !.pc = "raised", !.exc = r.exc]

\* _parse_number_with_suffix(text) runs
parse_number ==
    /\ ex.pc = "call"
    /\ ex.fn = "parse_number_with_suffix"
    /\ ex' = Ended(ex, parse_number_with_suffix(ex.text))
    /\ UNCHANGED <<entry, config, rq, gp, ch, mc, log, net_used, an>>

\* the acquisition engine at rest, under the default configuration
ParserAtRest ==
    /\ config = ConfigOf(3, 1, None, TRUE)
    /\ rq = IdleRq
    /\ gp = IdleGp
    /\ ch = IdleCh
    /\ mc = IdleMc
    /\ log = <<>>
    /\ net_used = FALSE

\* a caller invokes _parse_number_with_suffix(text)
InitNumber ==
    /\ entry = "parse_number_with_suffix"
    /\ ParserAtRest
    /\ \E text \in SeqsUpTo(TextChars, MaxTextLen) :
         ex = [pc |-> "call", fn |-> "parse_number_with_suffix", text |-> text,
               result |-> None, exc |-> "none"]
    /\ an = IdleAn

NextNumber == parse_number

SpecNumber == InitNumber /\ [][NextNumber]_vars

(* Properties of _parse_number_with_suffix *)

HasDigit(text) == \E i \in 1..Len(text) : IsDigit(text[i])

\* C12: the parser is total: for every text it returns an integer and never
\* raises, and it returns 0 when the text has no number to parse
C12_TotalParser ==
    (entry = "parse_number_with_suffix" /\ ex.pc # "call") =>
        (/\ ex.pc = "returned"
         /\ Val(ex.result) \in Int
         /\ ~HasDigit(ex.text) => Val(ex.result) = 0)

\* the plain number of a text: what is left of it once all but digits and
\* dots is stripped, times a multiplier, truncated; 0 if it is no number
PlainNumber(text, multiplier) ==
    LET number == float(views_cleanup(text))
    IN  IF number = None THEN 0 ELSE int_times(Val(number), multiplier)

\* the value the claim gives a text: a multiplier only for a trailing suffix
TrailingSuffixValue(text) ==
    LET t == upper(strip(text)) IN
    IF t # <<>> /\ t[Len(t)] = "K"
    THEN PlainNumber(SubSeq(t, 1, Len(t) - 1), K_MULTIPLIER)
    ELSE IF t # <<>> /\ t[Len(t)] = "M"
    THEN PlainNumber(SubSeq(t, 1, Len(t) - 1), M_MULTIPLIER)
    ELSE PlainNumber(t, 1)

\* C13: a text ending in K or M is worth its number times 1000 or 1000000;
\* any other text is worth its plain number, a K or M elsewhere in it
\* notwithstanding
C13_MultiplierOnlyForTrailingSuffix ==
    (entry = "parse_number_with_suffix" /\ ex.pc = "returned") =>
        Val(ex.result) = TrailingSuffixValue(ex.text)

----------------------------------------------------------------------------
(* The content extractor: _parse_posts_from_html and _parse_single_post    *)
(*                                                                         *)
(* A post container is a record of what the extractor reads off it:        *)
(*   data_post  the data-post attribute as its "/"-separated parts, None   *)
(*              when the attribute is missing or empty                     *)
(*   time       the datetime attribute of the time element, None when the  *)
(*              element or the attribute is missing or empty               *)
(*   views      the text of the views element, None when there is none     *)

MaxContainers == 2     \* post containers on a page

POST_ID_PARTS_COUNT == 2

DataPosts ==
    { None,
      Some(<< <<"x">> >>),
      Some(<< <<"x">>, <<"x">> >>),
      Some(<< <<"x">>, <<"0">> >>),
      Some(<< <<"x">>, <<"1">> >>),
      Some(<< <<"x">>, <<"x">>, <<"5">> >>) }

\* a datetime attribute: an ISO 8601 text of a day, or a text that is none
TimeAttributes ==
    { None, Some([iso |-> FALSE, day |-> 0]) }
        \cup { Some([iso |-> TRUE, day |-> d]) : d \in 1..2 }

ViewsTexts == { None, Some(<<"1", "K">>), Some(<<"K">>) }

Containers ==
    { [data_post |-> dp, time |-> t, views |-> v] :
        dp \in DataPosts, t \in TimeAttributes, v \in ViewsTexts }

\* the document: blank, or its containers in document order (at most limit
\* of them) and the digits BEFORE_REGEX finds in the href of the "load more"
\* link (None without one)
Documents(limit) ==
    { [blank |-> TRUE, elements |-> <<>>, before |-> None] }
        \cup { [blank |-> FALSE, elements |-> e, before |-> b] :
                 e \in SeqsUpTo(Containers, limit),
                 b \in {None, Some("10")} }

\* str.isdigit()
isdigit(text) == text # <<>> /\ \A i \in 1..Len(text) : IsDigit(text[i])

\* _extract_numeric_id on the parts of post_id.split("/")
extract_numeric_id(parts) ==
    IF Len(parts) >= POST_ID_PARTS_COUNT /\ isdigit(parts[Len(parts)])
    THEN Some(int_of_digits(parts[Len(parts)]))
    ELSE None

\* parse_date on a string (date_utils.py): datetime.fromisoformat, offset
\* dropped; None when the string is no ISO date
parse_date_string(date_value) ==
    IF date_value.iso THEN Some(date_value.day) ELSE None

\* _extract_views
extract_views(post_elem) ==
    IF post_elem.views = None THEN Return(0)
    ELSE parse_number_with_suffix(Val(post_elem.views))

\* _parse_single_post: a Post, None, or the exception of _extract_views
parse_single_post(post_elem) ==
    IF post_elem.data_post = None THEN Return(None)
    ELSE LET post_id == extract_numeric_id(Val(post_elem.data_post)) IN
         IF ~Truthy(post_id) THEN Return(None)
         ELSE IF post_elem.time = None THEN Return(None)
         ELSE LET post_date == parse_date_string(Val(post_elem.time))
              IN  AndThen(extract_views(post_elem),
                          LAMBDA views : Return(Some([Post(Val(post_id), post_date)
                                                        EXCEPT !.views = views])))

\* `for elem in post_elements`: a Post is appended; None and an exception
\* are logged and the loop goes on
RECURSIVE parse_elements(_)
parse_elements(post_elements) ==
    IF post_elements = <<>> THEN <<>>
    ELSE LET Kept(r, rest) == IF r.kind = "return" /\ r.value # None
                              THEN <<Val(r.value)>> \o rest
                              ELSE rest
         IN  Kept(parse_single_post(Head(post_elements)),
                  parse_elements(Tail(post_elements)))

\* _parse_posts_from_html: (posts, next_before)
parse_posts_from_html(html_content) ==
    IF html_content.blank THEN Return(<< <<>>, None >>)
    ELSE Return(<< parse_elements(html_content.elements), html_content.before >>)

\* _parse_posts_from_html(html_content, channel_name) runs
parse_posts ==
    /\ ex.pc = "call"
    /\ ex.fn = "parse_posts_from_html"
    /\ ex' = Ended(ex, parse_posts_from_html(ex.html_content))
    /\ UNCHANGED <<entry, config, rq, gp, ch, mc, log, net_used, an>>

\* a caller invokes _parse_posts_from_html(html_content, channel_name)
InitExtract ==
    /\ entry = "parse_posts_from_html"
    /\ ParserAtRest
    /\ \E html \in Documents(MaxContainers) :
         ex = [pc |-> "call", fn |-> "parse_posts_from_html", html_content |-> html,
               result |-> None, exc |-> "none"]
    /\ an = IdleAn

NextExtract == parse_posts

SpecExtract == InitExtract /\ [][NextExtract]_vars

(* Properties of the content extractor *)

\* a container with an identifier, a timestamp that parses and views that
\* parse
Extractable(c) ==
    /\ c.data_post # None
    /\ Truthy(extract_numeric_id(Val(c.data_post)))
    /\ c.time # None
    /\ Val(c.time).iso
    /\ extract_views(c).kind = "return"

\* C14: the extractor raises nothing, every Post it yields has an identifier
\* and a timestamp, and every container whose extraction succeeds is yielded
C14_FailedContainersSkipped ==
    (entry = "parse_posts_from_html" /\ ex.pc # "call") =>
        (/\ ex.pc = "returned"
         /\ LET posts == Val(ex.result)[1]
                elems == ex.html_content.elements
            IN  /\ \A i \in 1..Len(posts) :
                     posts[i].post_id > 0 /\ posts[i].date # None
                /\ \A k \in 1..Len(elems) :
                     Extractable(elems[k]) =>
                       \E i \in 1..Len(posts) :
                          posts[i].post_id =
                            Val(extract_numeric_id(Val(elems[k].data_post))))

----------------------------------------------------------------------------
(* The channel age probe on its own *)

MaxAgeLimit == 2       \* age_posts_limit drawn from 0..MaxAgeLimit

\* a caller invokes _get_channel_age_info(channel_info, latest_post_id): the
\* frame stands at the request of _get_earliest_posts
InitAgeProbe ==
    /\ entry = "get_channel_age_info"
    /\ \E ra \in 0..MaxRetry, limit \in 0..MaxAgeLimit :
         config = [ConfigOf(ra, 1, None, TRUE) EXCEPT !.age_posts_limit = limit]
    /\ rq = CallRq("get_earliest_posts")
    /\ gp = IdleGp
    /\ ch = [IdleCh EXCEPT !.pc = "age",
                           !.channel_name = <<"a", "a", "a">>,
                           !.info = Some(ChannelInfo(<<"a", "a", "a">>, 0))]
    /\ mc = IdleMc
    /\ log = <<>>
    /\ net_used = FALSE
    /\ ex = IdleEx
    /\ an = IdleAn

NextAgeProbe == make_request \/ age_probe_page \/ age_probe_error

SpecAgeProbe == InitAgeProbe /\ [][NextAgeProbe]_vars

(* Properties of the age probe *)

\* the timestamps of the first k posts of a page
DatesAmongFirst(posts, k) ==
    {Val(posts[i].date) : i \in {j \in 1..Len(posts) : j <= k /\ posts[j].date # None}}

\* the least of a set of timestamps, None for the empty set
Earliest(dates) ==
    IF dates = {} THEN None ELSE Some(CHOOSE d \in dates : \A e \in dates : d <= e)

\* C15 as claimed: first_post_date is the minimum timestamp among all posts
\* of the probed page that have one, whatever their number and order
C15_MinOfAllPosts ==
    (entry = "get_channel_age_info" /\ ch.probe = "ok") =>
        Val(ch.info).first_post_date = Earliest(DatesAmongFirst(ch.probed, Len(ch.probed)))

\* C15 as amended: first_post_date is the minimum timestamp among the first
\* max(1, age_posts_limit) posts of the probed page that have one, and stays
\* None when none of them has
C15_MinOfFirstPosts ==
    (entry = "get_channel_age_info" /\ ch.probe = "ok") =>
        LET k == IF config.age_posts_limit > 1 THEN config.age_posts_limit ELSE 1
        IN  Val(ch.info).first_post_date = Earliest(DatesAmongFirst(ch.probed, k))

\* the page held two dated posts, the later one first, and only the first
\* was considered
C15_Witness ==
    /\ entry = "get_channel_age_info"
    /\ ch.probe = "ok"
    /\ config.age_posts_limit <= 1
    /\ Len(ch.probed) = 2
    /\ ch.probed[1].date = Some(2)
    /\ ch.probed[2].date = Some(1)
    /\ Val(ch.info).first_post_date = Some(2)

----------------------------------------------------------------------------
(* MetricsAnalyzer (src/telebrief/core/analyzer.py)                         *)
(*                                                                         *)
(* The floats of the analyzer are doubles; the literals 0.9 and 0.75 are  *)
(* the doubles nearest to them.                                            *)

PERCENTILE_90 == FDiv(FromInt(9), FromInt(10))
PERCENTILE_75 == FDiv(FromInt(3), FromInt(4))

\* sum(values) of integers
RECURSIVE sum(_)
sum(values) == IF values = <<>> THEN 0 ELSE Head(values) + sum(Tail(values))

\* sum(values) of floats: one addition after the other, from the left
RECURSIVE fsum(_)
fsum(values) ==
    IF values = <<>> THEN Zero
    ELSE FAdd(fsum(SubSeq(values, 1, Len(values) - 1)), values[Len(values)])

\* sorted(values) of integers
RECURSIVE insert_int(_, _)
insert_int(sorted_values, v) ==
    IF sorted_values = <<>> THEN <<v>>
    ELSE IF Head(sorted_values) <= v
         THEN <<Head(sorted_values)>> \o insert_int(Tail(sorted_values), v)
         ELSE <<v>> \o sorted_values

RECURSIVE sorted(_)
sorted(values) ==
    IF values = <<>> THEN <<>>
    ELSE insert_int(sorted(SubSeq(values, 1, Len(values) - 1)), values[Len(values)])

\* sorted(values) of floats
RECURSIVE insert_float(_, _)
insert_float(sorted_values, v) ==
    IF sorted_values = <<>> THEN <<v>>
    ELSE IF FLeq(Head(sorted_values), v)
         THEN <<Head(sorted_values)>> \o insert_float(Tail(sorted_values), v)
         ELSE <<v>> \o sorted_values

RECURSIVE sorted_floats(_)
sorted_floats(values) ==
    IF values = <<>> THEN <<>>
    ELSE insert_float(sorted_floats(SubSeq(values, 1, Len(values) - 1)),
                      values[Len(values)])

\* `[float(v) for v in views]`
floats(values) == [i \in 1..Len(values) |-> FromInt(values[i])]

\* the exact total of a list of floats (statistics._sum)
RECURSIVE exact_sum(_)
exact_sum(values) ==
    IF values = <<>> THEN F0 ELSE ExactAdd(Head(values), exact_sum(Tail(values)))

\* statistics.mean of a non-empty list: the exact total over the count,
\* rounded once
mean(values) == Rounded(CutQuotient(exact_sum(values), FromInt(Len(values))))

\* statistics.median of a non-empty list
median(values) ==
    LET s == sorted_floats(values)
        n == Len(s)
    IN  IF n % 2 = 1 THEN s[(n + 1) \div 2]
        ELSE FDiv(FAdd(s[n \div 2], s[n \div 2 + 1]), FromInt(2))

\* the sum of the values and of their squares, in limbs
RECURSIVE limb_sum(_)
limb_sum(values) ==
    IF values = <<>> THEN <<>> ELSE NAdd(Limbs(Head(values)), limb_sum(Tail(values)))

RECURSIVE limb_sum_of_squares(_)
limb_sum_of_squares(values) ==
    IF values = <<>> THEN <<>>
    ELSE NAdd(NMul(Limbs(Head(values)), Limbs(Head(values))),
              limb_sum_of_squares(Tail(values)))

\* statistics.stdev of two integers or more, none negative: the square
\* root, rounded once, of the exact sample variance
\* (count * sxx - sx * sx) / count / (count - 1)
stdev(values) ==
    LET count == Len(values)
        sx == limb_sum(values)
        sxx == limb_sum_of_squares(values)
    IN  float_sqrt_of_frac(NSub(NMul(Limbs(count), sxx), NMul(sx, sx)),
                           Limbs(count * (count - 1)))

\* Metrics(): every field at its default
Metrics ==
    [total_posts |-> 0, total_views |-> 0, analysis_period_days |-> 0,
     avg_views_per_post |-> Zero, median_views_per_post |-> 0,
     max_views |-> 0, min_views |-> 0,
     views_std_dev |-> Zero, views_cv |-> Zero,
     average_vr_percent |-> Zero, median_vr_percent |-> Zero,
     percentile_90_vr |-> Zero, percentile_75_vr |-> Zero,
     consistency_index_percent |-> Zero,
     posts_per_day |-> Zero, active_subs_estimate |-> 0,
     activation_ratio_percent |-> Zero,
     top_10_percent_share |-> Zero, gini_coefficient |-> Zero]

views_of(posts) == [i \in 1..Len(posts) |-> posts[i].views]

\* max(views) and min(views) of a non-empty list
max(values) == CHOOSE v \in {values[i] : i \in 1..Len(values)} :
                  \A i \in 1..Len(values) : values[i] <= v
min(values) == CHOOSE v \in {values[i] : i \in 1..Len(values)} :
                  \A i \in 1..Len(values) : v <= values[i]

\* _calculate_view_metrics: statistics.mean raises StatisticsError on an
\* empty list
calculate_view_metrics(metrics, posts) ==
    LET views == views_of(posts)
        Spread(avg, std) ==
            [metrics EXCEPT
                !.avg_views_per_post = avg,
                !.views_std_dev = std,
                !.views_cv = IF Len(views) > 1 /\ FLess(Zero, avg) THEN FDiv(std, avg)
                             ELSE Zero]
    IN  IF views = <<>> THEN Raise("StatisticsError")
        ELSE Return([Spread(mean(floats(views)),
                            IF Len(views) > 1 THEN stdev(views) ELSE Zero) EXCEPT
                 !.median_views_per_post = FInt(median(floats(views))),
                 !.max_views = max(views),
                 !.min_views = min(views)])

\* `low * (1 - weight) + high * weight`
interpolated(low, high, weight) ==
    FAdd(FMul(low, FSub(FromInt(1), weight)), FMul(high, weight))

\* the percentile of the two View-Rate estimates: the value at index
\* (n - 1) * q if that is a whole number, else the interpolation of its
\* two neighbours
percentile(sorted_values, q) ==
    LET At(index) ==
            LET lower == FInt(index)
                higher == lower + 1
            IN  IF index = FromInt(lower) THEN sorted_values[lower + 1]
                ELSE interpolated(sorted_values[lower + 1], sorted_values[higher + 1],
                                  FSub(index, FromInt(lower)))
    IN  At(FMul(FromInt(Len(sorted_values) - 1), q))

\* _calculate_vr_metrics: statistics.mean raises StatisticsError on an
\* empty list
calculate_vr_metrics(metrics, posts, subscribers) ==
    IF subscribers = 0 THEN Return(metrics)
    ELSE IF posts = <<>> THEN Raise("StatisticsError")
    ELSE LET vr_values == [i \in 1..Len(posts) |->
                 FMul(FDiv(FromInt(posts[i].views), FromInt(subscribers)), FromInt(100))]
             sorted_vr == sorted_floats(vr_values)
             Consistency(average) ==
                 [metrics EXCEPT
                     !.average_vr_percent = average,
                     !.consistency_index_percent =
                         FMul(FDiv(FromInt(Cardinality({i \in 1..Len(vr_values) :
                                                           FLeq(average, vr_values[i])})),
                                   FromInt(Len(vr_values))),
                              FromInt(100))]
         IN  Return([Consistency(mean(vr_values)) EXCEPT
                 !.median_vr_percent = median(vr_values),
                 !.percentile_90_vr = percentile(sorted_vr, PERCENTILE_90),
                 !.percentile_75_vr = percentile(sorted_vr, PERCENTILE_75)])

\* the 90th percentile of the views, as an integer
p90_views(sorted_views) ==
    LET n == Len(sorted_views)
        At(p90_index) ==
            LET lower == FInt(p90_index)
                higher == IF lower + 1 < n - 1 THEN lower + 1 ELSE n - 1
            IN  IF p90_index = FromInt(lower) THEN sorted_views[lower + 1]
                ELSE FInt(interpolated(FromInt(sorted_views[lower + 1]),
                                       FromInt(sorted_views[higher + 1]),
                                       FSub(p90_index, FromInt(lower))))
    IN  At(FMul(FromInt(n - 1), PERCENTILE_90))

\* _calculate_activity_metrics
calculate_activity_metrics(metrics, posts, period_days, subscribers) ==
    LET Active(m1, active) ==
            [m1 EXCEPT
                !.active_subs_estimate = active,
                !.activation_ratio_percent =
                    IF subscribers > 0
                    THEN FMul(FDiv(FromInt(active), FromInt(subscribers)), FromInt(100))
                    ELSE Zero]
        Paced(m1) == IF posts = <<>> THEN m1
                     ELSE Active(m1, p90_views(sorted(views_of(posts))))
    IN  Paced([metrics EXCEPT !.posts_per_day =
                  IF period_days > 0 THEN FDiv(FromInt(Len(posts)), FromInt(period_days))
                  ELSE Zero])

MIN_VALUES_FOR_GINI == 2
TOP_POSTS_PERCENTAGE == 10
MIN_WINDOWS_FOR_TREND == 2
MAX_TREND_WINDOWS == 12
TREND_GROWTH_THRESHOLD == 2
TREND_DECLINE_THRESHOLD == -2

\* a slip of rank_weighted_sum: the ranks start at 0
RECURSIVE rank_weighted_sum_from_zero(_)
rank_weighted_sum_from_zero(sorted_values) ==
    IF sorted_values = <<>> THEN Zero
    ELSE FAdd(rank_weighted_sum_from_zero(SubSeq(sorted_values, 1, Len(sorted_values) - 1)),
              FMul(FromInt(Len(sorted_values) - 1), sorted_values[Len(sorted_values)]))

\* sum((i + 1) * value for i, value in enumerate(sorted_values))
RECURSIVE rank_weighted_sum(_)
rank_weighted_sum(sorted_values) ==
    IF sorted_values = <<>> THEN Zero
    ELSE FAdd(rank_weighted_sum(SubSeq(sorted_values, 1, Len(sorted_values) - 1)),
              FMul(FromInt(Len(sorted_values)), sorted_values[Len(sorted_values)]))

\* _calculate_gini
calculate_gini(values) ==
    IF values = <<>> \/ Len(values) < MIN_VALUES_FOR_GINI THEN Zero
    ELSE LET sorted_values == sorted_floats(values)
             n == Len(sorted_values)
             Of(cumsum) ==
                 IF cumsum = Zero THEN Zero
                 ELSE FSub(FDiv(FMul(FromInt(2), rank_weighted_sum(sorted_values)),
                                FMul(FromInt(n), cumsum)),
                           FDiv(FromInt(n + 1), FromInt(n)))
         IN  Of(fsum(sorted_values))

\* a slip of top_10_count: the tenth is rounded up
top_10_count_rounded_up(n) ==
    IF (n + TOP_POSTS_PERCENTAGE - 1) \div TOP_POSTS_PERCENTAGE > 1
    THEN (n + TOP_POSTS_PERCENTAGE - 1) \div TOP_POSTS_PERCENTAGE ELSE 1

\* `top_10_count = max(1, len(posts) // TOP_POSTS_PERCENTAGE)`
top_10_count(n) ==
    IF n \div TOP_POSTS_PERCENTAGE > 1 THEN n \div TOP_POSTS_PERCENTAGE ELSE 1

\* _calculate_quality_metrics
calculate_quality_metrics(metrics, posts) ==
    IF posts = <<>> THEN metrics
    ELSE LET views == views_of(posts)
             total_views == sum(views)
             sorted_views == Reversed(sorted(views))
             top_10_views == sum(PyPrefix(sorted_views, top_10_count(Len(posts))))
         IN  [metrics EXCEPT
                 !.top_10_percent_share =
                     IF total_views > 0
                     THEN FMul(FDiv(FromInt(top_10_views), FromInt(total_views)),
                               FromInt(100))
                     ELSE Zero,
                 !.gini_coefficient = calculate_gini(floats(views))]

\* `[post for post in channel.posts if post.date and post.date >= cutoff_date]`
posts_since(posts, cutoff_date) ==
    SelectSeq(posts, LAMBDA post : post.date # None /\ Val(post.date) >= cutoff_date)

\* `days or 0`
days_or_zero(days) == IF Truthy(days) THEN Val(days) ELSE 0

\* analyze_channel(channel, days)
analyze_channel(channel, days) ==
    IF channel.posts = <<>> THEN Return(Metrics)
    ELSE LET posts == IF Truthy(days) THEN posts_since(channel.posts, cutoff(Val(days)))
                      ELSE channel.posts
             m0 == [Metrics EXCEPT !.total_posts = Len(posts),
                                   !.total_views = sum(views_of(posts)),
                                   !.analysis_period_days = days_or_zero(days)]
         IN  AndThen(AndThen(calculate_view_metrics(m0, posts),
                             LAMBDA m1 : calculate_vr_metrics(m1, posts,
                                             channel.info.subscribers)),
                     LAMBDA m2 : Return(calculate_quality_metrics(
                                     calculate_activity_metrics(m2, posts,
                                         days_or_zero(days), channel.info.subscribers),
                                     posts)))

\* f"{period}_days"
period_key(period) == <<period, "_days">>

\* compare_periods: `for period in periods`, results so far in results
RECURSIVE compare_periods(_, _, _)
compare_periods(channel, periods, results) ==
    IF periods = <<>> THEN Return(results)
    ELSE AndThen(analyze_channel(channel, Some(Head(periods))),
                 LAMBDA metrics :
                     compare_periods(channel, Tail(periods),
                         dict_set(results, period_key(Head(periods)), metrics)))

\* a slip of window_posts_of: the window takes in its later end
window_posts_of_closed(posts, window_start, current_date) ==
    SelectSeq(posts, LAMBDA p :
        LET post_date == parse_date(p.date)
        IN  post_date # None /\ window_start <= Val(post_date)
                             /\ Val(post_date) <= current_date)

\* the posts of the window [window_start, current_date)
window_posts_of(posts, window_start, current_date) ==
    SelectSeq(posts, LAMBDA p :
        LET post_date == parse_date(p.date)
        IN  post_date # None /\ window_start <= Val(post_date)
                             /\ Val(post_date) < current_date)

\* the record appended for a window
window_record(window_posts, window_start, current_date, window_days, subscribers) ==
    LET Record(avg_views) ==
            [period |-> <<window_start, current_date>>,
             posts_count |-> Len(window_posts),
             avg_views |-> round(avg_views, 0),
             vr_percent |-> round(IF subscribers # 0
                                  THEN FMul(FDiv(avg_views, FromInt(subscribers)),
                                            FromInt(100))
                                  ELSE Zero, 2),
             posts_per_day |-> IF window_days > 0
                               THEN FDiv(FromInt(Len(window_posts)), FromInt(window_days))
                               ELSE Zero]
    IN  Record(mean(floats(views_of(window_posts))))

\* the `while True` loop of get_trend_analysis
RECURSIVE trend_windows(_, _, _, _)
trend_windows(channel, window_days, current_date, windows) ==
    LET window_start == current_date - window_days
        window_posts == window_posts_of(channel.posts, window_start, current_date)
        Grown(appended) ==
            IF Len(appended) >= MAX_TREND_WINDOWS THEN appended
            ELSE trend_windows(channel, window_days, window_start, appended)
    IN  IF window_posts = <<>> THEN windows
        ELSE Grown(Append(windows,
                       window_record(window_posts, window_start, current_date,
                                     window_days, channel.info.subscribers)))

\* _calculate_trend_direction
calculate_trend_direction(windows) ==
    IF Len(windows) < MIN_WINDOWS_FOR_TREND THEN "insufficient_data"
    ELSE LET recent == windows[1]
             older == windows[Len(windows)]
             Direction(vr_change) ==
                 IF FLess(FromInt(TREND_GROWTH_THRESHOLD), vr_change) THEN "growing"
                 ELSE IF FLess(vr_change, FromInt(TREND_DECLINE_THRESHOLD))
                 THEN "declining"
                 ELSE "stable"
         IN  Direction(FSub(recent.vr_percent, older.vr_percent))

\* get_trend_analysis(channel, window_days): a dict; {} is the record without
\* fields
get_trend_analysis(channel, window_days) ==
    IF channel.posts = <<>> THEN Return(<<>>)
    ELSE LET Trend(windows) ==
                 Return([windows |-> windows,
                         trend_direction |-> calculate_trend_direction(windows)])
         IN  Trend(trend_windows(channel, window_days, Now, <<>>))

\* analyze_channel(channel, days) runs
analyze ==
    /\ an.pc = "call"
    /\ an.fn = "analyze_channel"
    /\ an' = Ended(an, analyze_channel(an.channel, an.days))
    /\ UNCHANGED <<entry, config, rq, gp, ch, mc, log, net_used, ex>>

\* compare_periods(channel, periods) runs
compare ==
    /\ an.pc = "call"
    /\ an.fn = "compare_periods"
    /\ an' = Ended(an, compare_periods(an.channel, an.periods, <<>>))
    /\ UNCHANGED <<entry, config, rq, gp, ch, mc, log, net_used, ex>>

\* _calculate_quality_metrics(metrics, posts) runs: the result is metrics as
\* the method leaves it
quality ==
    /\ an.pc = "call"
    /\ an.fn = "calculate_quality_metrics"
    /\ an' = Ended(an, Return(calculate_quality_metrics(an.metrics, an.posts)))
    /\ UNCHANGED <<entry, config, rq, gp, ch, mc, log, net_used, ex>>

\* _calculate_gini(values) runs
gini ==
    /\ an.pc = "call"
    /\ an.fn = "calculate_gini"
    /\ an' = Ended(an, Return(calculate_gini(floats(an.values))))
    /\ UNCHANGED <<entry, config, rq, gp, ch, mc, log, net_used, ex>>

\* get_trend_analysis(channel, window_days) runs
trend ==
    /\ an.pc = "call"
    /\ an.fn = "get_trend_analysis"
    /\ an' = Ended(an, get_trend_analysis(an.channel, an.window_days))
    /\ UNCHANGED <<entry, config, rq, gp, ch, mc, log, net_used, ex>>

----------------------------------------------------------------------------
(* Specifications of the analyzer: one per method a caller invokes *)

MaxPosts == 2          \* posts of an analyzed channel
MaxPeriods == 2        \* periods of a comparison
MaxWindowDays == 2     \* window_days drawn from -1..MaxWindowDays
MaxGiniLen == 5        \* values handed to _calculate_gini
MaxQualityPosts == 11  \* posts handed to _calculate_quality_metrics
MaxHistory == 13       \* days of history of a channel handed to get_trend_analysis

\* the posts of an analyzed channel: a view count, and a timestamp up to now
\* or none
ViewCounts == {0, 2, 3, 5}
AnalyzedPosts ==
    { [Post(1, d) EXCEPT !.views = v] :
        v \in ViewCounts, d \in {None} \cup {Some(t) : t \in 0..Now} }

Channels ==
    { [info |-> [channel |-> <<"a", "a", "a">>, subscribers |-> n], posts |-> posts] :
        n \in {0, 3, 100}, posts \in SeqsUpTo(AnalyzedPosts, MaxPosts) }

AnalyzerCall(frame) ==
    /\ ParserAtRest
    /\ ex = IdleEx
    /\ an = frame

\* a caller invokes analyze_channel(channel, days)
InitAnalyze ==
    /\ entry = "analyze_channel"
    /\ \E channel \in Channels, days \in {None} \cup {Some(d) : d \in 0..MaxDays} :
         AnalyzerCall([pc |-> "call", fn |-> "analyze_channel", channel |-> channel,
                       days |-> days, result |-> None, exc |-> "none"])

NextAnalyze == analyze

SpecAnalyze == InitAnalyze /\ [][NextAnalyze]_vars

\* a caller invokes compare_periods(channel, periods)
InitCompare ==
    /\ entry = "compare_periods"
    /\ \E channel \in Channels, periods \in SeqsUpTo(0..MaxDays, MaxPeriods) :
         AnalyzerCall([pc |-> "call", fn |-> "compare_periods", channel |-> channel,
                       periods |-> periods, result |-> None, exc |-> "none"])

NextCompare == compare

SpecCompare == InitCompare /\ [][NextCompare]_vars

\* a channel with a history: one post on each of the last `days` days but
\* the day `gap` days back, oldest first
HistoryPosts(days, gap) ==
    LET back == [j \in 1..days |-> days + 1 - j]
        kept == SelectSeq(back, LAMBDA j : j # gap)
    IN  [i \in 1..Len(kept) |-> [Post(i, Some(Now - kept[i])) EXCEPT !.views = 2]]

Histories ==
    { [info |-> [channel |-> <<"a", "a", "a">>, subscribers |-> 100],
       posts |-> HistoryPosts(days, gap)] :
        days \in 1..MaxHistory, gap \in 0..MaxHistory }

\* a caller invokes get_trend_analysis(channel, window_days)
InitTrend ==
    /\ entry = "get_trend_analysis"
    /\ \E channel \in Channels \cup Histories, window_days \in -1..MaxWindowDays :
         AnalyzerCall([pc |-> "call", fn |-> "get_trend_analysis", channel |-> channel,
                       window_days |-> window_days, result |-> None, exc |-> "none"])

NextTrend == trend

SpecTrend == InitTrend /\ [][NextTrend]_vars

\* the values of the Gini test, and what else _calculate_gini is handed
GiniValues == {0, 10, 20, 30, 40, 500}

\* a caller invokes _calculate_gini(values)
InitGini ==
    /\ entry = "calculate_gini"
    /\ \E values \in SeqsUpTo(GiniValues, MaxGiniLen) :
         AnalyzerCall([pc |-> "call", fn |-> "calculate_gini", values |-> values,
                       result |-> None, exc |-> "none"])

NextGini == gini

SpecGini == InitGini /\ [][NextGini]_vars

\* the view counts handed to _calculate_quality_metrics: short lists of any
\* view counts, and long lists of posts viewed once or never
QualityViews ==
    SeqsUpTo(ViewCounts, MaxPosts) \cup SeqsUpTo({0, 1}, MaxQualityPosts)

\* a caller invokes _calculate_quality_metrics(metrics, posts)
InitQuality ==
    /\ entry = "calculate_quality_metrics"
    /\ \E views \in QualityViews :
         AnalyzerCall([pc |-> "call", fn |-> "calculate_quality_metrics",
                       metrics |-> Metrics,
                       posts |-> [i \in 1..Len(views) |->
                                    [Post(i, Some(Now)) EXCEPT !.views = views[i]]],
                       result |-> None, exc |-> "none"])

NextQuality == quality

SpecQuality == InitQuality /\ [][NextQuality]_vars

----------------------------------------------------------------------------
(* Properties of the analyzer *)

\* every count and rate of a Metrics record is 0
ZeroValued(metrics) ==
    metrics = [Metrics EXCEPT !.analysis_period_days = metrics.analysis_period_days]

\* the channel has no post, or a period of some days is given and no post of
\* the channel has a timestamp inside the trailing window
NothingToConsider(channel, days) ==
    \/ channel.posts = <<>>
    \/ /\ days # None
       /\ Val(days) > 0
       /\ \A i \in 1..Len(channel.posts) :
            \/ channel.posts[i].date = None
            \/ Val(channel.posts[i].date) < Now - Val(days)

\* C11: when the set of posts it considers is empty, analyze_channel returns
\* a zero-valued Metrics record and raises nothing
C11_ZeroMetricsWhenNothingToConsider ==
    (/\ entry = "analyze_channel"
     /\ an.pc # "call"
     /\ NothingToConsider(an.channel, an.days))
        => (an.pc = "returned" /\ ZeroValued(Val(an.result)))

\* the share of the k most viewed posts in the total views, in percent
TopShare(views, k) ==
    IF sum(views) = 0 THEN Zero
    ELSE FMul(FDiv(FromInt(sum(SubSeq(Reversed(sorted(views)), 1, k))),
                   FromInt(sum(views))),
              FromInt(100))

\* C16 as claimed: for n >= 1 posts the top-decile share is taken over the
\* top ceil(n / 10) posts
C16_TopShareOverTenthRoundedUp ==
    (entry = "calculate_quality_metrics" /\ an.pc = "returned" /\ an.posts # <<>>) =>
        LET n == Len(an.posts)
        IN  Val(an.result).top_10_percent_share
                = TopShare(views_of(an.posts), (n + 9) \div 10)

\* C16 as amended: for n >= 1 posts the top-decile share is taken over the
\* top max(1, floor(n / 10)) posts, and is 0 when the total of views is 0
C16_TopShareOverTenthRoundedDown ==
    (entry = "calculate_quality_metrics" /\ an.pc = "returned" /\ an.posts # <<>>) =>
        LET n == Len(an.posts)
            tenth == n \div 10
        IN  Val(an.result).top_10_percent_share
                = TopShare(views_of(an.posts), IF tenth >= 1 THEN tenth ELSE 1)

\* eleven posts, and the share of the top one is not that of the top two
C16_Witness ==
    /\ entry = "calculate_quality_metrics"
    /\ an.pc = "returned"
    /\ Len(an.posts) = 11
    /\ Val(an.result).top_10_percent_share = TopShare(views_of(an.posts), 1)
    /\ TopShare(views_of(an.posts), 1) # TopShare(views_of(an.posts), 2)

\* the sum of i * v_i over 1-based ranks i
RECURSIVE RankSum(_)
RankSum(v) == IF v = <<>> THEN 0 ELSE RankSum(SubSeq(v, 1, Len(v) - 1)) + Len(v) * v[Len(v)]

SkewedViews == <<10, 20, 30, 40, 500>>

OneHalf == FDiv(FromInt(1), FromInt(2))

\* C17: the Gini coefficient is 2 * sum(i * v_i) / (n * sum(v)) - (n + 1) / n
\* over the values sorted ascending, the two quotients and their difference
\* being those of floats; it is 0 for a constant input of two or more
\* values, above 0.5 for [10, 20, 30, 40, 500], and 0 for fewer than two
\* values or a zero total
C17_GiniCoefficient ==
    (entry = "calculate_gini" /\ an.pc # "call") =>
        (/\ an.pc = "returned"
         /\ LET G == Val(an.result)
                n == Len(an.values)
                total == sum(an.values)
            IN  /\ (n < 2 \/ total = 0) => G = Zero
                /\ (n >= 2 /\ total > 0) =>
                     G = FSub(FDiv(FromInt(2 * RankSum(sorted(an.values))),
                                   FromInt(n * total)),
                              FDiv(FromInt(n + 1), FromInt(n)))
                /\ (n >= 2 /\ \A i \in 1..n : an.values[i] = an.values[1]) => G = Zero
                /\ an.values = SkewedViews => FLess(OneHalf, G))

\* the skewed input was handed in and its coefficient is above one half
C17_Witness ==
    /\ entry = "calculate_gini"
    /\ an.pc = "returned"
    /\ an.values = SkewedViews
    /\ FLess(OneHalf, Val(an.result))

\* C18: a direction is reported for every channel: "insufficient_data" with
\* fewer than 2 windows; otherwise, with delta the view-rate of the most
\* recent window minus that of the oldest, "growing" for delta > 2,
\* "declining" for delta < -2, "stable" for anything else
C18_TrendClassification ==
    (entry = "get_trend_analysis" /\ an.pc # "call") =>
        (/\ an.pc = "returned"
         /\ "trend_direction" \in DOMAIN Val(an.result)
         /\ LET w == Val(an.result).windows
                direction == Val(an.result).trend_direction
            IN  IF Len(w) < 2 THEN direction = "insufficient_data"
                ELSE LET delta == FSub(w[1].vr_percent, w[Len(w)].vr_percent)
                     IN  direction = IF FLess(FromInt(2), delta) THEN "growing"
                                     ELSE IF FLess(delta, FromInt(-2)) THEN "declining"
                                     ELSE "stable")

\* C19: compare_periods raises nothing and returns, for every period p of
\* the list, an entry keyed "<p>_days" whose analysis_period_days is p
C19_OneRecordPerPeriod ==
    (entry = "compare_periods" /\ an.pc # "call") =>
        (/\ an.pc = "returned"
         /\ \A i \in 1..Len(an.periods) :
              \E k \in 1..Len(Val(an.result)) :
                 /\ Val(an.result)[k][1] = period_key(an.periods[i])
                 /\ Val(an.result)[k][2].analysis_period_days = an.periods[i])

----------------------------------------------------------------------------
(* The post-count ceiling inside the loop of _get_posts *)

\* the posts of the page in the response that are inside the window
AcceptedOnPage ==
    Cardinality({i \in 1..Len(rq.response.posts) :
                    /\ rq.response.posts[i].date # None
                    /\ Val(rq.response.posts[i].date) >= Now - gp.days})

\* C20: with a ceiling max_posts set, the collection never holds more posts
\* than the ceiling, and the page whose accepted posts fill it ends the
\* loop: exactly max_posts posts are kept and no further page is fetched
C20_CeilingKeptInsideLoop ==
    [][ config.max_posts # None =>
          (/\ Len(gp'.all_posts) <= Val(config.max_posts)
           /\ (/\ gp.pc = "wait"
               /\ rq.pc = "returned"
               /\ rq.response.kind = "page"
               /\ Len(gp.all_posts) + AcceptedOnPage >= Val(config.max_posts))
                => (/\ gp'.pc = "returned"
                    /\ Len(gp'.result) = Val(config.max_posts)
                    /\ rq'.pc = "idle"
                    /\ log' = log)) ]_vars

----------------------------------------------------------------------------
(* The boundary of the window inside the loop of _get_posts *)

\* the posts of a page that are inside the window, in document order
InWindow(posts) ==
    SelectSeq(posts, LAMBDA p : p.date # None /\ Val(p.date) >= Now - gp.days)

\* the page in the response holds a post older than the cutoff
OlderOnPage ==
    \E i \in 1..Len(rq.response.posts) :
        /\ rq.response.posts[i].date # None
        /\ Val(rq.response.posts[i].date) < Now - gp.days

\* the posts of the page inside the window do not fill a ceiling
BelowCeiling ==
    \/ config.max_posts = None
    \/ Len(gp.all_posts) + Len(InWindow(rq.response.posts)) < Val(config.max_posts)

\* C21: a post older than the cutoff does not by itself stop the collection.
\* Below the ceiling every post of the page inside the window is accepted,
\* older posts on the page or not; a page with an older post and at least
\* one accepted post is followed, when it carries a cursor, by the sleep and
\* the fetch of the next page; the loop stops on the boundary only when the
\* page contributed no post
C21_BoundaryStopsOnlyEmptyHanded ==
    [][ (/\ gp.pc = "wait"
         /\ rq.pc = "returned"
         /\ rq.response.kind = "page"
         /\ rq.response.posts # <<>>)
        => LET in_window == InWindow(rq.response.posts)
               next_before == rq.response.next_before
           IN  /\ BelowCeiling =>
                     IF gp'.pc = "wait"
                     THEN gp'.all_posts = gp.all_posts \o Reversed(in_window)
                     ELSE /\ gp'.pc = "returned"
                          /\ SamePosts(gp'.result, gp.all_posts \o in_window)
               /\ (OlderOnPage /\ in_window # <<>> /\ next_before # None /\ BelowCeiling)
                     => (/\ gp'.pc = "wait"
                         /\ gp'.before = next_before
                         /\ rq'.pc = "run"
                         /\ log' = log \o << <<"sleep", rate_delay>>,
                                             <<"fetch", next_before>> >>)
               /\ gp'.stop = "stale" => in_window = <<>> ]_vars

\* the first page held a post older than the cutoff and a post inside the
\* window: the post was accepted and the second page is being fetched
C21_Witness ==
    /\ entry = "get_posts"
    /\ gp.pc = "wait"
    /\ gp.days = 1
    /\ gp.served = 1
    /\ gp.served_ids = {2, 3}
    /\ gp.all_posts = << Post(3, Some(2)) >>
    /\ Len(log) = 3

----------------------------------------------------------------------------
(* latest_post_id, the second value _get_posts returns *)

\* a page of posts has come back to the loop
PageArrives ==
    /\ gp.pc = "wait"
    /\ rq.pc = "returned"
    /\ rq.response.kind = "page"

\* C22: latest_post_id is fixed by the first fetched page only.  With posts
\* on that page it is the identifier of the page's first post in document
\* order, inside the window or not; without posts it is None; no later page
\* and no other step changes it
C22_LatestFixedByFirstPage ==
    [][ /\ (PageArrives /\ gp.served = 0) =>
              gp'.latest_post_id =
                  IF rq.response.posts = <<>> THEN None
                  ELSE Some(rq.response.posts[1].post_id)
        /\ (PageArrives /\ gp.served = 0 /\ rq.response.posts = <<>>) =>
              gp'.pc = "returned"
        /\ (PageArrives /\ gp.served > 0) =>
              (gp.latest_post_id # None /\ gp'.latest_post_id = gp.latest_post_id)
        /\ (~PageArrives /\ gp.pc # "call") =>
              gp'.latest_post_id = gp.latest_post_id
        /\ gp.pc = "call" => gp'.latest_post_id = None ]_vars

\* two pages were served; the first began with the post without a timestamp,
\* which is not among the posts returned, and latest_post_id names it
C22_Witness ==
    /\ entry = "get_posts"
    /\ gp.pc = "returned"
    /\ gp.served = 2
    /\ gp.latest_post_id = Some(1)
    /\ gp.result # <<>>
    /\ \A i \in 1..Len(gp.result) : gp.result[i].post_id # 1

----------------------------------------------------------------------------
(* Fetches and rate-limit sleeps of one _get_posts call, as the log has them *)

\* C23: the log of a call is fetch, sleep, fetch, ..., fetch.  The first
\* fetch carries no cursor and nothing precedes it; every later fetch comes
\* right after one sleep of 1/requests_per_second and carries the cursor of
\* the page before it; every call of _make_request is one fetch of the log;
\* no sleep is left at the end of the log
C23_OneSleepBetweenFetches ==
    [][ LET n == Len(log') IN
        /\ n > 0 => (log'[1] = <<"fetch", None>> /\ n % 2 = 1)
        /\ \A i \in 1..n :
             IF i % 2 = 1 THEN log'[i][1] = "fetch"
             ELSE log'[i] = <<"sleep", rate_delay>>
        /\ (log' # log /\ log # <<>>) =>
             (/\ PageArrives
              /\ rq.response.next_before # None
              /\ log' = log \o << <<"sleep", rate_delay>>,
                                  <<"fetch", rq.response.next_before>> >>)
        /\ (rq'.pc = "run" /\ rq.pc # "run") <=> log' # log ]_vars

\* two pages were fetched: the second fetch carried the cursor "20" of the
\* first page, one sleep lies between them and none after
C23_Witness ==
    /\ entry = "get_posts"
    /\ gp.pc = "returned"
    /\ gp.served = 2
    /\ log = << <<"fetch", None>>, <<"sleep", rate_delay>>, <<"fetch", Some("20")>> >>

----------------------------------------------------------------------------
(* The pauses of parse_multiple_channels *)

\* C24: between any two successive channels of a batch there is one sleep
\* of 1/requests_per_second, whether the earlier channel succeeded or
\* failed, and none after the last channel: with k channels attempted so
\* far the loop has slept k - 1 times
C24_SleepBetweenChannels ==
    mc.pc \in {"loop", "returned"} =>
        /\ Len(mc.sleeps) = Len(mc.attempts) - 1
        /\ \A k \in 1..Len(mc.sleeps) : mc.sleeps[k] = rate_delay

----------------------------------------------------------------------------
(* The windows of get_trend_analysis *)

\* the windows reported: none when the result is {}
ReportedWindows ==
    IF "windows" \in DOMAIN Val(an.result) THEN Val(an.result).windows ELSE <<>>

\* the k-th window back from now is [Now - k * window_days,
\* Now - (k - 1) * window_days); these are the posts of the channel in it
InWindowBack(k) ==
    {i \in 1..Len(an.channel.posts) :
        LET d == an.channel.posts[i].date
        IN  /\ d # None
            /\ Now - k * an.window_days <= Val(d)
            /\ Val(d) < Now - (k - 1) * an.window_days}

\* C25: get_trend_analysis returns for every channel and every window_days,
\* zero and negative included, with at most 12 windows.  The k-th window
\* reported is the k-th window back from now, most recent first; it counts
\* the posts inside it and holds at least one; no post lies in two reported
\* windows; the walk ends at the first window without posts, older posts or
\* not
C25_TrendWindows ==
    (entry = "get_trend_analysis" /\ an.pc # "call") =>
        (/\ an.pc = "returned"
         /\ LET w == ReportedWindows IN
            /\ Len(w) <= MAX_TREND_WINDOWS
            /\ an.window_days <= 0 => w = <<>>
            /\ \A k \in 1..Len(w) :
                 /\ w[k].period = <<Now - k * an.window_days,
                                    Now - (k - 1) * an.window_days>>
                 /\ w[k].posts_count = Cardinality(InWindowBack(k))
                 /\ w[k].posts_count >= 1
            /\ \A j, k \in 1..Len(w) : j # k => InWindowBack(j) \cap InWindowBack(k) = {}
            /\ Len(w) < MAX_TREND_WINDOWS => InWindowBack(Len(w) + 1) = {})

\* twelve windows of one day are reported for a channel with a post on each
\* of the last thirteen days
C25_Witness ==
    /\ entry = "get_trend_analysis"
    /\ an.pc = "returned"
    /\ an.window_days = 1
    /\ Len(an.channel.posts) = 13
    /\ Len(ReportedWindows) = 12

----------------------------------------------------------------------------
(* Page-fetch failures by the position of the fetch *)

\* C26: an iteration that goes on to fetch another page has added at least
\* one post to the collection; so a page fetch that fails for good is raised
\* to the caller exactly when it is the first fetch of the call, and ends in
\* a partial return on every later fetch
C26_FailureRaisedOnlyOnFirstFetch ==
    [][ /\ (PageArrives /\ gp'.pc = "wait") =>
              (/\ Len(gp'.all_posts) > Len(gp.all_posts)
               /\ Len(log') = Len(log) + 2)
        /\ (gp.pc = "wait" /\ rq.pc = "raised") =>
              IF Len(log) = 1
              THEN gp'.pc = "raised" /\ gp'.exc = "ValueError"
              ELSE gp'.pc = "returned" /\ gp'.stop = "error" /\ gp'.result # <<>> ]_vars

\* the second fetch failed after a first page with one post inside the window
\* and one older post: the one post is returned
C26_Witness ==
    /\ entry = "get_posts"
    /\ gp.pc = "returned"
    /\ gp.stop = "error"
    /\ gp.days = 1
    /\ gp.served_ids = {2, 3}
    /\ Len(log) = 3
    /\ gp.result = << Post(3, Some(2)) >>

----------------------------------------------------------------------------
(* The number of fetches of one _get_posts call *)

\* the cursors of the fetches so far, in order
Fetched == SelectSeq(log, LAMBDA e : e[1] = "fetch")

\* C27: with max_posts = N >= 1 a call issues at most N page fetches,
\* whatever the source serves and however long it goes on handing out
\* cursors; the N-th fetch is the last thing the call waits for
C27_AtMostCeilingFetches ==
    [][ Truthy(config.max_posts) =>
          (/\ Len(Fetched') <= Val(config.max_posts)
           /\ (/\ Len(Fetched) = Val(config.max_posts)
               /\ gp.pc = "wait"
               /\ rq.pc \in {"returned", "raised"})
                 => gp'.pc \in {"returned", "raised"}) ]_vars

\* a ceiling of 2 was filled by two pages of one post each; both pages
\* carried a cursor, and two fetches were issued
C27_Witness ==
    /\ entry = "get_posts_endless"
    /\ config.max_posts = Some(2)
    /\ gp.pc = "returned"
    /\ gp.served = 2
    /\ gp.page_cursor # None
    /\ Len(gp.result) = 2
    /\ Len(Fetched) = 2

----------------------------------------------------------------------------
(* Cursors a source hands back a second time *)

NoRepeat(s) == \A i, j \in 1..Len(s) : i # j => s[i] # s[j]

\* C28 as claimed: within one call no two fetches are issued with the same
\* cursor, whatever cursors the source hands back
C28_NoCursorFetchedTwice == NoRepeat(Fetched)

\* C28 as amended: the loop keeps no record of cursors.  A page that
\* contributed a post and carries a cursor is followed, below the ceiling,
\* by a fetch with that cursor, used before or not; every fetch after the
\* first carries the cursor of the page before it; so the fetches of a call
\* carry distinct cursors as long as the source hands back no used one
C28_CursorPassedOnUsedOrNot ==
    [][ LET next_before == rq.response.next_before IN
        /\ (/\ PageArrives
            /\ InWindow(rq.response.posts) # <<>>
            /\ next_before # None
            /\ BelowCeiling)
              => (/\ gp'.pc = "wait"
                  /\ Fetched' = Append(Fetched, <<"fetch", next_before>>))
        /\ (Fetched' # Fetched /\ gp.pc # "call")
              => (/\ PageArrives
                  /\ Fetched' = Append(Fetched, <<"fetch", next_before>>)
                  /\ NoRepeat(Fetched') <=>
                        (/\ NoRepeat(Fetched)
                         /\ \A i \in 1..Len(Fetched) : Fetched[i][2] # next_before)) ]_vars

\* the second page handed back the cursor "10" of the first, and the third
\* fetch was issued with it again
C28_Witness ==
    /\ entry = "get_posts_endless"
    /\ Fetched = << <<"fetch", None>>, <<"fetch", Some("10")>>, <<"fetch", Some("10")>> >>

----------------------------------------------------------------------------
(* Failures of _make_request and the transport *)

\* C29: for every retry_attempts the configuration accepts (0 to 10),
\* _make_request raises only after at least one transport request
C29_FailureOnlyAfterTransport ==
    rq.pc = "raised" => (Len(rq.outcomes) >= 1 /\ net_used)

----------------------------------------------------------------------------
(* The posts kept when the ceiling is reached inside a page *)

\* the last k elements of s
Suffix(s, k) == SubSeq(s, Len(s) - k + 1, Len(s))

\* the posts collected so far and those of the page inside the window came
\* newest first: earlier pages hold later posts, and the page ascends
NewestPagesFirst ==
    LET in_window == InWindow(rq.response.posts) IN
    /\ \A i, j \in 1..Len(gp.all_posts) :
         i < j => Val(gp.all_posts[i].date) >= Val(gp.all_posts[j].date)
    /\ NonDecreasing(in_window)
    /\ \A i \in 1..Len(gp.all_posts), j \in 1..Len(in_window) :
         Val(in_window[j].date) <= Val(gp.all_posts[i].date)

\* kept are n of the candidates, and no candidate left out is later than
\* the earliest post kept
MostRecent(kept, candidates, n) ==
    /\ Len(kept) = n
    /\ \A p \in SourcePosts : Count(kept, p) <= Count(candidates, p)
    /\ \A k \in 1..Len(kept) :
         Cardinality({i \in 1..Len(candidates) :
                         Val(candidates[i].date) > Val(kept[k].date)})
           = Cardinality({i \in 1..Len(kept) :
                         Val(kept[i].date) > Val(kept[k].date)})

\* C30: when the posts of a page inside the window reach the ceiling
\* max_posts = N, the call returns the posts collected before and, of the
\* page, the posts inside the window that come last in document order, as
\* many as were needed; posts earlier on the page are dropped.  When pages
\* came newest first and the page ascends in time, these are the N most
\* recent of all posts inside the window served so far
C30_LatestInDocumentOrderKept ==
    [][ (/\ PageArrives
         /\ Truthy(config.max_posts)
         /\ Len(gp.all_posts) + Len(InWindow(rq.response.posts))
                >= Val(config.max_posts))
        => LET in_window == InWindow(rq.response.posts)
               needed == Val(config.max_posts) - Len(gp.all_posts)
           IN  /\ gp'.pc = "returned"
               /\ SamePosts(gp'.result, gp.all_posts \o Suffix(in_window, needed))
               /\ NewestPagesFirst =>
                    MostRecent(gp'.result, gp.all_posts \o in_window,
                               Val(config.max_posts)) ]_vars

\* a ceiling of 1 met a page with post 2 and then post 3, both inside the
\* window: post 3, the later in document order, is the one returned
C30_Witness ==
    /\ entry = "get_posts"
    /\ config.max_posts = Some(1)
    /\ gp.pc = "returned"
    /\ gp.days = 2
    /\ gp.served = 1
    /\ gp.served_ids = {2, 3}
    /\ gp.result = << Post(3, Some(2)) >>

====
